---- MODULE Spec2Model ----
(***************************************************************************)
(* Verification model of the recording core of aivms-backend:             *)
(*   - services/recording_index.py   (RecordingIndex, the Index Store)    *)
(*   - services/playback_manager.py  (PlaybackManager)                    *)
(*   - services/recording_engine.py  (RecordingEngine, Segment Writer)    *)
(***************************************************************************)
EXTENDS Integers, Sequences, FiniteSets, TLC

(***************************************************************************)
(* Bounds of the model.                                                    *)
(***************************************************************************)
\* total number of index API calls (add_recording, mark_invalid, delete_*)
MaxOps == 3
\* longest path list handed to delete_segments_batch
MaxBatch == 2

None == "none"
\* Python's None where a datetime is expected (no instant is negative)
NoTime == 0 - 1

Cameras == {"cam1", "cam2"}
\* segment files; the camera directory is part of the path
Paths == {"p1", "p2", "p3"}
CameraOf(p) == IF p = "p3" THEN "cam2" ELSE "cam1"
\* wall-clock instants in milliseconds (one of them on a whole second)
Times == {999, 1000}
\* instants a reader may pass as range bounds
QueryTimes == {999, 1000, 1001}
\* threads that call the index API: t1 indexes segments (a Segment Writer,
\* the reconciler) and may call every method, t2 is a maintenance thread
\* (retention, emergency cleanup) that only deletes and invalidates
Threads == {"t1", "t2"}
Indexers == {"t1"}
Writer == "DatabaseWriterThread"

\* RecordingEngine.__init__ default segment_duration_ms
segment_duration_ms == 3000

(***************************************************************************)
(* sqlite3's default datetime adapter: datetime.isoformat(" ").  The text  *)
(* is "YYYY-MM-DD HH:MM:SS" followed by ".ffffff" only when the            *)
(* microsecond part is not zero.  A text is modelled as <<seconds>> or     *)
(* <<seconds, microseconds>>; both parts are fixed-width in the real text, *)
(* so comparing the parts as numbers is comparing the text.                *)
(***************************************************************************)
DatetimeText(ms) ==
    IF ms % 1000 = 0 THEN << ms \div 1000 >>
                     ELSE << ms \div 1000, (ms % 1000) * 1000 >>

\* SQLite's BINARY collation on two such texts: a proper prefix sorts first
TextLess(a, b) ==
    \/ a[1] < b[1]
    \/ /\ a[1] = b[1]
       /\ \/ Len(a) = 1 /\ Len(b) = 2
          \/ Len(a) = 2 /\ Len(b) = 2 /\ a[2] < b[2]

TextLeq(a, b) == a = b \/ TextLess(a, b)

(***************************************************************************)
(* The recordings table.                                                   *)
(***************************************************************************)
\* the row that add_recording binds for INSERT INTO recordings
Row(camera_id, segment_path, start_time, duration_ms, start_time_ms) ==
    [camera_id     |-> camera_id,
     segment_path  |-> segment_path,
     start_time    |-> DatetimeText(start_time),
     start_time_ms |-> start_time_ms,
     end_time      |-> DatetimeText(start_time + duration_ms),
     duration_ms   |-> duration_ms,
     is_valid      |-> TRUE]

\* mutant: the table without UNIQUE(camera_id, start_time_ms)
UniqueViolation_path_only(recs, row) ==
    \E r \in recs : r.segment_path = row.segment_path

\* segment_path TEXT NOT NULL UNIQUE, UNIQUE(camera_id, start_time_ms)
UniqueViolation(recs, row) ==
    \E r \in recs :
        \/ r.segment_path = row.segment_path
        \/ r.camera_id = row.camera_id /\ r.start_time_ms = row.start_time_ms

\* UPDATE recordings SET is_valid = 0 WHERE segment_path = ?
UpdateInvalid(recs, path) ==
    { IF r.segment_path = path THEN [r EXCEPT !.is_valid = FALSE] ELSE r
        : r \in recs }

\* DELETE FROM recordings WHERE segment_path = ?
DeleteWhere(recs, path) == { r \in recs : r.segment_path # path }

RECURSIVE OrderByStartTime_desc(_)
\* mutant: ORDER BY start_time DESC
OrderByStartTime_desc(S) ==
    IF S = {} THEN << >>
    ELSE LET m == CHOOSE r \in S :
                    \A q \in S : TextLeq(q.start_time, r.start_time)
         IN  << m >> \o OrderByStartTime_desc(S \ {m})

RECURSIVE OrderByStartTime(_)
\* ORDER BY start_time ASC
OrderByStartTime(S) ==
    IF S = {} THEN << >>
    ELSE LET m == CHOOSE r \in S :
                    \A q \in S : TextLeq(r.start_time, q.start_time)
         IN  << m >> \o OrderByStartTime(S \ {m})

\* mutant: the upper bound of the range taken as inclusive
get_segments_closed_end(recs, camera_id, start_time, end_time) ==
    OrderByStartTime(
      { r \in recs :
          /\ r.camera_id = camera_id
          /\ r.is_valid
          /\ (start_time # NoTime =>
                TextLeq(DatetimeText(start_time), r.start_time))
          /\ (end_time # NoTime =>
                TextLeq(r.start_time, DatetimeText(end_time))) })

\* RecordingIndex.get_segments (start_time / end_time may be None)
get_segments(recs, camera_id, start_time, end_time) ==
    OrderByStartTime(
      { r \in recs :
          /\ r.camera_id = camera_id
          /\ r.is_valid
          /\ (start_time # NoTime =>
                TextLeq(DatetimeText(start_time), r.start_time))
          /\ (end_time # NoTime =>
                TextLess(r.start_time, DatetimeText(end_time))) })

\* mutant: the lookup without "AND is_valid = 1"
get_segment_by_timestamp_any(recs, camera_id, timestamp) ==
    { r \in recs :
        /\ r.camera_id = camera_id
        /\ TextLeq(r.start_time, DatetimeText(timestamp))
        /\ TextLeq(DatetimeText(timestamp), r.end_time) }

\* RecordingIndex.get_segment_by_timestamp: LIMIT 1 without ORDER BY, so
\* any matching row may be the one returned; the set of possible answers
get_segment_by_timestamp(recs, camera_id, timestamp) ==
    { r \in recs :
        /\ r.camera_id = camera_id
        /\ TextLeq(r.start_time, DatetimeText(timestamp))
        /\ TextLeq(DatetimeText(timestamp), r.end_time)
        /\ r.is_valid }

\* PlaybackManager.get_segments_for_playback
get_segments_for_playback(recs, camera_id, start_time, end_time) ==
    LET segments == get_segments(recs, camera_id, start_time, end_time)
    IN  [i \in 1..Len(segments) |->
           [segment_path |-> segments[i].segment_path,
            start_time   |-> segments[i].start_time,
            duration_ms  |-> segments[i].duration_ms]]

\* PlaybackManager.generate_hls_playlist: the segment lines of the playlist
generate_hls_playlist(camera_id, segments) ==
    [i \in 1..Len(segments) |-> << camera_id, segments[i].segment_path >>]

(***************************************************************************)
(* Paths (pathlib on POSIX) and the strings they are written as.  A name   *)
(* is the sequence of its characters; a path is its anchor and its         *)
(* components.                                                             *)
(***************************************************************************)
Slash == "/"
Dot == << "." >>
DotDot == << ".", "." >>

\* Path(text): the text is split at '/', empty and '.' components are
\* dropped, '..' is kept; the path is absolute if the text starts with '/'
RECURSIVE SplitText(_, _)
SplitText(text, cur) ==
    IF text = << >> THEN << cur >>
    ELSE IF Head(text) = Slash
         THEN << cur >> \o SplitText(Tail(text), << >>)
         ELSE SplitText(Tail(text), Append(cur, Head(text)))

PathOf(text) ==
    [abs   |-> text # << >> /\ Head(text) = Slash,
     parts |-> SelectSeq(SplitText(text, << >>),
                         LAMBDA n : n # << >> /\ n # Dot)]

RECURSIVE JoinNames(_)
JoinNames(parts) ==
    IF parts = << >> THEN << >>
    ELSE IF Len(parts) = 1 THEN parts[1]
    ELSE parts[1] \o << Slash >> \o JoinNames(Tail(parts))

\* str(path)
PathStr(path) ==
    IF path.abs THEN << Slash >> \o JoinNames(path.parts)
    ELSE IF path.parts = << >> THEN Dot
    ELSE JoinNames(path.parts)

\* a / b with b given as text: an absolute right operand replaces the left
JoinPath(a, text) ==
    LET b == PathOf(text)
    IN  IF b.abs THEN b ELSE [abs |-> a.abs, parts |-> a.parts \o b.parts]

\* Path.relative_to(other): << the rest >>, or << >> for ValueError
relative_to(path, other) ==
    IF /\ path.abs = other.abs
       /\ Len(other.parts) <= Len(path.parts)
       /\ SubSeq(path.parts, 1, Len(other.parts)) = other.parts
    THEN << [abs   |-> FALSE,
             parts |-> SubSeq(path.parts, Len(other.parts) + 1,
                              Len(path.parts))] >>
    ELSE << >>

\* str.startswith
startswith(text, prefix) ==
    /\ Len(prefix) <= Len(text)
    /\ SubSeq(text, 1, Len(prefix)) = prefix

\* the storage root of the configuration's fallback, './storage/recordings',
\* with one-letter names: ./r
DefaultStoragePath == PathOf(<< ".", Slash, "r" >>)

(***************************************************************************)
(* State.                                                                  *)
(***************************************************************************)
VARIABLES
    recordings,    \* committed rows of the recordings table
    write_queue,   \* RecordingIndex.write_queue
    writer_pc,     \* position of _database_writer_loop: "get" | "commit"
    writer_op,     \* operation the writer has dequeued
    lock_owner,    \* holder of RecordingIndex.lock
    db_owner,      \* connection holding SQLite's write lock
    tx,            \* uncommitted rows of the open write transaction
    thread_pc,     \* per caller: "idle" | "execute" | "commit"
    thread_op,     \* per caller: the mutating call in progress
    ops,           \* number of API calls made so far
    enqueued,      \* history: rows in the order add_recording queued them
    applied,       \* history: seq of the queue items in the order the
                   \*   writer handled them
    pair_done,     \* history: rows s with add_recording(s) then
                   \*   delete_segment(s.path) returned by one thread
    last_call,     \* history: the row of a thread's previous call when that
                   \*   call was add_recording
    last_segment_urls,  \* _process_hls_stream's set of URLs of the last poll
    disk,          \* paths of the segment files written
    clock,         \* wall clock, in milliseconds
    polls,         \* number of polls made so far
    offered,       \* history: URLs that passed the filter in a polled playlist
    failed_urls,   \* history: URLs whose download or write raised
    polled,        \* history: << the filtered URL set of the latest poll >>,
                   \*   << >> when that poll got or parsed no playlist
    repeated,      \* history: the latest poll listed the URL set of the poll
                   \*   before it
    camera_error_counts,        \* RecoveryTracker.camera_error_counts
    camera_last_error_time,     \* RecoveryTracker.camera_last_error_time
    camera_last_recovery_time,  \* RecoveryTracker.camera_last_recovery_time
    epoch,         \* time.time(), in seconds
    ticks,         \* number of times the clock was advanced
    calls,         \* number of calls made to the tracker
    last_result,   \* history: what the latest record_error call saw and gave
    is_running,    \* RecordingEngine.is_running
    cam_pc,        \* position of _record_camera: "start" | "stream" |
                   \*   "stopped" (returned) | "dead" (an exception left it)
    init_segments, \* RecordingEngine.init_segments: cameras with a cached entry
    init_segment_downloaded,  \* the local flag of _process_hls_stream
    steps,         \* number of loop iterations made so far
    last_error,    \* history: [site, class] of the error the latest step met
    last_report,   \* history: error_type the latest step gave to record_error
    last_sleep,    \* history: seconds of backoff the latest step slept
    last_write,    \* history: content of the file the latest step wrote
    recovering,    \* history: _attempt_recovery ran and no segment was
                   \*   written since
    wrote_after_recovery,  \* history: the latest step made the first
                   \*   successful write after a recovery action
    sweep,         \* the cleanup pass in progress
    sweeps,        \* number of cleanup passes started
    retention_days,          \* RetentionManager.retention_days
    policies,      \* the retention_policies table: camera_id -> retention_days
    cleanup_history,         \* the cleanup_history table, in insertion order
    last_emergency_cleanup,  \* EmergencyCleanupManager.last_emergency_cleanup
    disk_metrics_history,    \* HealthMonitor.disk_metrics_history[-1:], as
                   \*   percent_used
    inv,           \* per thread: its call of _trigger_emergency_cleanup
    invocations,   \* number of calls of _trigger_emergency_cleanup so far
    em_log,        \* history: the camera sweeps the emergency passes began
    intact,        \* the files on disk that pass RecoveryManager._is_file_valid
    rec_pc,        \* position of verify_and_recover: "idle" | "orphans" |
                   \*   "integrity"
    runs,          \* number of verify_and_recover runs completed (saturating)
    baseline,      \* history: << the table >> as a run found it when an
                   \*   earlier run had completed and its inserts were
                   \*   applied, << >> otherwise
    pb_call,       \* history: the last GET /api/playback/<camera_id>, its
                   \*   arguments, the dict returned and the HTTP status
    storage_path,  \* RecordingEngine.storage_path, Path(storage_path) of
                   \*   the configuration
    engine_duration_ms,  \* RecordingEngine.segment_duration_ms
    timeline_index,  \* the rows of the table timeline_index
    indexed_files, \* MediaMTXIndexService.indexed_files
    seg_task,      \* per camera, the position of the Segment Writer inside
                   \*   _download_and_process_segment and the file it writes
    seen,          \* history: the files the scanner indexed, each with the
                   \*   state the Segment Writer had brought it to
    tl_call,       \* history: the latest build_timeline calls
    recording_threads,  \* the live _record_camera threads, each with its
                   \*   camera, the start() call that made it and its position
    starts,        \* number of RecordingEngine.start() calls that made threads
    proc           \* the application process: its state "running" |
                   \*   "shutdown" (the atexit handler has run) | "exited",
                   \*   and the number of operations that had been enqueued
                   \*   when the handler ran

vars == << recordings, write_queue, writer_pc, writer_op, lock_owner,
           db_owner, tx, thread_pc, thread_op, ops, enqueued, applied,
           pair_done, last_call, last_segment_urls, disk, clock, polls,
           offered, failed_urls, polled, repeated, camera_error_counts,
           camera_last_error_time, camera_last_recovery_time, epoch, ticks,
           calls, last_result, is_running, cam_pc, init_segments,
           init_segment_downloaded, steps, last_error, last_report,
           last_sleep, last_write, recovering, wrote_after_recovery,
           sweep, sweeps, retention_days, policies, cleanup_history,
           last_emergency_cleanup, disk_metrics_history, inv, invocations,
           em_log, intact, rec_pc, runs, baseline, pb_call,
           storage_path, engine_duration_ms, timeline_index, indexed_files,
           seg_task, seen, tl_call, recording_threads, starts, proc >>

index_vars == << recordings, write_queue, writer_pc, writer_op, lock_owner,
                 db_owner, tx, thread_pc, thread_op, ops, enqueued, applied,
                 pair_done, last_call >>

poll_vars == << last_segment_urls, disk, clock, polls, offered, failed_urls,
               polled, repeated >>

tracker_vars == << camera_error_counts, camera_last_error_time,
                   camera_last_recovery_time, epoch, ticks, calls,
                   last_result >>

\* the variables of the components that the Index Store and the poll loop
\* do not touch
camera_vars == << is_running, cam_pc, init_segments,
                  init_segment_downloaded, steps, last_error, last_report,
                  last_sleep, last_write, recovering, wrote_after_recovery >>

sweep_vars == << sweep, sweeps >>

emergency_vars == << retention_days, policies, cleanup_history,
                     last_emergency_cleanup, disk_metrics_history, inv,
                     invocations, em_log >>

recovery_vars == << intact, rec_pc, runs, baseline >>

\* the variables of the maintenance and playback services
\* the configuration and state of the services around the recording engine
tasks_vars == << recording_threads, starts, proc >>

service_vars == << storage_path, engine_duration_ms, timeline_index,
                  indexed_files, seg_task, seen, tl_call, tasks_vars >>

extra_vars == << emergency_vars, recovery_vars, pb_call, service_vars >>

rest_vars == << tracker_vars, camera_vars, sweep_vars, extra_vars >>

NoOp == [type |-> None]

(***************************************************************************)
(* queue.Queue as RecordingIndex uses it.                                  *)
(***************************************************************************)
\* queue.Queue() is built without a maxsize argument: 0 means "infinite"
maxsize == 0

\* Queue.put blocks only while maxsize > 0 and qsize() >= maxsize
QueueFull(q) == maxsize > 0 /\ Len(q) >= maxsize

\* Queue.put appends on the right of the deque
QueuePut(q, item) == Append(q, item)

\* mutant: a LIFO queue, which hands out the item put last
QueueGetIndex_lifo(q) == Len(q)

\* Queue.get pops on the left of the deque: index of the item handed out
QueueGetIndex(q) == 1

QueueRemove(q, i) == SubSeq(q, 1, i - 1) \o SubSeq(q, i + 1, Len(q))

(***************************************************************************)
(* Initial state: the index right after RecordingIndex.__init__ on an      *)
(* empty database.                                                         *)
(***************************************************************************)
StoreInit ==
    /\ recordings = {}
    /\ write_queue = << >>
    /\ writer_pc = "get"
    /\ writer_op = NoOp
    /\ lock_owner = None
    /\ db_owner = None
    /\ tx = {}
    /\ thread_pc = [t \in Threads |-> "idle"]
    /\ thread_op = [t \in Threads |-> NoOp]
    /\ ops = 0
    /\ enqueued = << >>
    /\ applied = << >>
    /\ pair_done = {}
    /\ last_call = [t \in Threads |-> NoOp]

(***************************************************************************)
(* RecordingIndex.add_recording: builds the row and puts the INSERT on the *)
(* write queue; returns True without waiting for the writer.               *)
(***************************************************************************)
add_recording(t, camera_id, segment_path, start_time, duration_ms, start_time_ms) ==
    LET row == Row(camera_id, segment_path, start_time, duration_ms,
                   start_time_ms)
    IN  /\ thread_pc[t] = "idle"
        /\ ops < MaxOps
        /\ ~QueueFull(write_queue)
        /\ write_queue' = QueuePut(write_queue,
                             [op_type |-> "insert_recording", row |-> row,
                              seq |-> Len(enqueued) + 1])
        /\ enqueued' = Append(enqueued, row)
        /\ last_call' = [last_call EXCEPT ![t] = row]
        /\ ops' = ops + 1
        /\ UNCHANGED << recordings, writer_pc, writer_op, lock_owner,
                        db_owner, tx, thread_pc, thread_op, applied, pair_done, poll_vars,
                    rest_vars >>

(***************************************************************************)
(* _database_writer_loop.                                                  *)
(***************************************************************************)
\* operation = self.write_queue.get(timeout=1.0)
WriterGet ==
    /\ writer_pc = "get"
    /\ write_queue # << >>
    /\ LET i == QueueGetIndex(write_queue)
       IN  /\ writer_op' = write_queue[i]
           /\ write_queue' = QueueRemove(write_queue, i)
    /\ writer_pc' = "execute"
    /\ UNCHANGED << recordings, lock_owner, db_owner, tx, thread_pc,
                    thread_op, ops, enqueued, applied,
                    pair_done, last_call, poll_vars,
                    rest_vars >>

\* cursor.execute(args[0], args[1]) of an 'insert_recording': the INSERT
\* takes SQLite's write lock; a uniqueness conflict raises IntegrityError,
\* which is logged and rolled back, and the loop goes on (task_done)
WriterExecute ==
    /\ writer_pc = "execute"
    /\ db_owner = None
    /\ IF UniqueViolation(recordings, writer_op.row)
       THEN /\ applied' = Append(applied, writer_op.seq)
            /\ writer_pc' = "get"
            /\ writer_op' = NoOp
            /\ UNCHANGED << db_owner, tx >>
       ELSE /\ db_owner' = Writer
            /\ tx' = recordings \cup {writer_op.row}
            /\ writer_pc' = "commit"
            /\ UNCHANGED << applied, writer_op >>
    /\ UNCHANGED << recordings, write_queue, lock_owner, thread_pc,
                    thread_op, ops, enqueued, pair_done,
                    last_call, poll_vars,
                    rest_vars >>

\* conn.commit(), then self.write_queue.task_done()
WriterCommit ==
    /\ writer_pc = "commit"
    /\ recordings' = tx
    /\ db_owner' = None
    /\ tx' = {}
    /\ applied' = Append(applied, writer_op.seq)
    /\ writer_pc' = "get"
    /\ writer_op' = NoOp
    /\ UNCHANGED << write_queue, lock_owner, thread_pc, thread_op, ops,
                    enqueued, pair_done, last_call, poll_vars,
                    rest_vars >>

\* except Exception: any other sqlite3 error of execute or commit (database
\* is locked, disk full): logged, rolled back, the operation is dropped
WriterError ==
    /\ writer_pc \in {"execute", "commit"}
    /\ db_owner' = IF db_owner = Writer THEN None ELSE db_owner
    /\ tx' = IF db_owner = Writer THEN {} ELSE tx
    /\ applied' = Append(applied, writer_op.seq)
    /\ writer_pc' = "get"
    /\ writer_op' = NoOp
    /\ UNCHANGED << recordings, write_queue, lock_owner, thread_pc,
                    thread_op, ops, enqueued, pair_done,
                    last_call, poll_vars,
                    rest_vars >>

(***************************************************************************)
(* mark_invalid, delete_segment, delete_segments_batch: each runs in the   *)
(* calling thread under self.lock on a connection of its own.              *)
(***************************************************************************)
\* "with self.lock:" of the three methods; delete_segments_batch returns 0
\* before taking the lock when the list is empty
BeginCall(t, type, paths) ==
    /\ thread_pc[t] = "idle"
    /\ ops < MaxOps
    /\ ops' = ops + 1
    /\ IF paths = << >>
       THEN /\ last_call' = [last_call EXCEPT ![t] = NoOp]
            /\ UNCHANGED << lock_owner, thread_pc, thread_op >>
       ELSE /\ lock_owner = None
            /\ lock_owner' = t
            /\ thread_pc' = [thread_pc EXCEPT ![t] = "execute"]
            /\ thread_op' = [thread_op EXCEPT
                               ![t] = [type |-> type, paths |-> paths,
                                       todo |-> paths, pre |-> {}]]
            /\ UNCHANGED last_call
    /\ UNCHANGED << recordings, write_queue, writer_pc, writer_op, db_owner,
                    tx, enqueued, applied, pair_done, poll_vars,
                    rest_vars >>

mark_invalid(t, segment_path) ==
    BeginCall(t, "mark_invalid", << segment_path >>)

delete_segment(t, segment_path) ==
    BeginCall(t, "delete_segment", << segment_path >>)

delete_segments_batch(t, segment_paths) ==
    BeginCall(t, "delete_segments_batch", segment_paths)

\* rows of recs that a path list names
Named(recs, paths) ==
    { r \in recs : \E i \in 1..Len(paths) : paths[i] = r.segment_path }

\* one statement of cursor.execute / cursor.executemany on the rows base
Statement(type, base, path) ==
    IF type = "mark_invalid" THEN UpdateInvalid(base, path)
                             ELSE DeleteWhere(base, path)

\* mutant: a connection in autocommit mode, each statement visible at once
VisibleAfterStatement_autocommit(committed, pending) == pending

\* what other connections see after a statement of an open transaction:
\* sqlite3.connect() keeps the default isolation level, so the statements run
\* inside an implicit transaction and stay invisible until conn.commit()
VisibleAfterStatement(committed, pending) == committed

\* cursor.execute(...) / the next statement of cursor.executemany(...): the
\* first statement opens the transaction (takes SQLite's write lock), the
\* changes stay in the transaction until commit
Execute(t) ==
    /\ thread_pc[t] = "execute"
    /\ db_owner \in {None, t}
    /\ LET op   == thread_op[t]
           base == IF db_owner = t THEN tx ELSE recordings
       IN  /\ tx' = Statement(op.type, base, Head(op.todo))
           /\ thread_op' = [thread_op EXCEPT
                 ![t].todo = Tail(op.todo),
                 ![t].pre  = IF db_owner = t THEN op.pre
                             ELSE Named(recordings, op.paths)]
           /\ thread_pc' = [thread_pc EXCEPT
                 ![t] = IF Tail(op.todo) = << >> THEN "commit"
                                                  ELSE "execute"]
    /\ db_owner' = t
    /\ recordings' = VisibleAfterStatement(recordings, tx')
    /\ UNCHANGED << write_queue, writer_pc, writer_op,
                    lock_owner, ops, enqueued, applied,
                    pair_done, last_call, poll_vars,
                    rest_vars >>

\* conn.commit(); conn.close(); return True / deleted_count
Commit(t) ==
    /\ thread_pc[t] = "commit"
    /\ LET op == thread_op[t]
       IN  /\ recordings' = tx
           /\ last_call' = [last_call EXCEPT ![t] = NoOp]
           /\ pair_done' =
                 IF /\ op.type = "delete_segment"
                    /\ last_call[t] # NoOp
                    /\ last_call[t].segment_path = op.paths[1]
                 THEN pair_done \cup {last_call[t]}
                 ELSE pair_done
    /\ db_owner' = None
    /\ tx' = {}
    /\ lock_owner' = None
    /\ thread_pc' = [thread_pc EXCEPT ![t] = "idle"]
    /\ thread_op' = [thread_op EXCEPT ![t] = NoOp]
    /\ UNCHANGED << write_queue, writer_pc, writer_op, ops, enqueued,
                    applied, poll_vars,
                    rest_vars >>

\* except Exception: a sqlite3 error anywhere in the try block (database is
\* locked, disk full): the connection is dropped uncommitted, which rolls
\* the transaction back; the method returns False / 0
Fail(t) ==
    /\ thread_pc[t] \in {"execute", "commit"}
    /\ db_owner' = IF db_owner = t THEN None ELSE db_owner
    /\ tx' = IF db_owner = t THEN {} ELSE tx
    /\ lock_owner' = None
    /\ last_call' = [last_call EXCEPT ![t] = NoOp]
    /\ thread_pc' = [thread_pc EXCEPT ![t] = "idle"]
    /\ thread_op' = [thread_op EXCEPT ![t] = NoOp]
    /\ UNCHANGED << recordings, write_queue, writer_pc, writer_op, ops,
                    enqueued, applied, pair_done, poll_vars,
                    rest_vars >>

\* the path lists a caller may hand to delete_segments_batch
BatchLists ==
    { s \in UNION { [1..n -> Paths] : n \in 0..MaxBatch } :
        \A i, j \in DOMAIN s : i # j => s[i] # s[j] }

IndexNext ==
    \/ \E t \in Indexers, p \in Paths, tm \in Times :
          add_recording(t, CameraOf(p), p, tm, segment_duration_ms, tm)
    \/ WriterGet
    \/ WriterExecute
    \/ WriterCommit
    \/ WriterError
    \/ \E t \in Threads, p \in Paths : mark_invalid(t, p)
    \/ \E t \in Threads, p \in Paths : delete_segment(t, p)
    \/ \E t \in Threads, ps \in BatchLists : delete_segments_batch(t, ps)
    \/ \E t \in Threads : Execute(t)
    \/ \E t \in Threads : Commit(t)
    \/ \E t \in Threads : Fail(t)

(***************************************************************************)
(* RecoveryTracker: the per-camera error counts and time stamps.           *)
(***************************************************************************)
\* self.error_threshold
error_threshold == 5
\* self.error_window_seconds
error_window_seconds == 60
\* self.recovery_cooldown_seconds
recovery_cooldown_seconds == 30

\* time.time() when the tracker is built
StartTime == 1000

\* RecoveryTracker.__init__ with camera_ids: the counts start at zero, the
\* time dicts are empty (every read of them is .get(camera_id, 0))
TrackerInit ==
    /\ camera_error_counts = [c \in Cameras |-> 0]
    /\ camera_last_error_time = [c \in Cameras |-> 0]
    /\ camera_last_recovery_time = [c \in Cameras |-> 0]
    /\ epoch = StartTime
    /\ ticks = 0
    /\ calls = 0
    /\ last_result = NoOp

\* RecordingEngine.start(): is_running is set and the camera's thread is
\* about to run _record_camera; the init-segment cache is empty
CameraInit ==
    /\ is_running = TRUE
    /\ cam_pc = "start"
    /\ init_segments = {}
    /\ init_segment_downloaded = FALSE
    /\ steps = 0
    /\ last_error = NoOp
    /\ last_report = None
    /\ last_sleep = 0
    /\ last_write = None
    /\ recovering = FALSE
    /\ wrote_after_recovery = FALSE

\* no cleanup pass has run
SweepInit ==
    /\ sweep = NoOp
    /\ sweeps = 0

\* the threads that may run _trigger_emergency_cleanup: the monitor thread
\* of EmergencyCleanupManager and a request thread of the manual route
EmThreads == {"monitor", "manual"}

\* a thread that is not inside _trigger_emergency_cleanup
NoInvocation ==
    [pc |-> "idle", id |-> 0, origin |-> None, policies_sorted |-> << >>,
     camera_id |-> None, old_segments |-> << >>, entry |-> 0,
     sample |-> << >>, below |-> FALSE]

\* RetentionManager, RetentionPolicyManager, EmergencyCleanupManager and
\* HealthMonitor as built with the defaults: no policy row, no history row,
\* no sweep made, no disk sample taken
EmergencyInit ==
    /\ retention_days = 30
    /\ policies = << >>
    /\ cleanup_history = << >>
    /\ last_emergency_cleanup = [c \in Cameras |-> 0]
    /\ disk_metrics_history = << >>
    /\ inv = [t \in EmThreads |-> NoInvocation]
    /\ invocations = 0
    /\ em_log = << >>

\* no recording thread before the first start(), the process is up
TasksInit ==
    /\ recording_threads = {}
    /\ starts = 0
    /\ proc = [state |-> "running", enqueued |-> 0]

\* the services around the engine as the application builds them
ServiceInit ==
    /\ storage_path = DefaultStoragePath
    /\ engine_duration_ms = segment_duration_ms
    /\ timeline_index = {}
    /\ indexed_files = {}
    /\ seg_task = [c \in Cameras |-> [pc |-> "idle", path |-> None]]
    /\ seen = {}
    /\ tl_call = NoOp
    /\ TasksInit

\* RecoveryManager as built: verify_and_recover has not run
RecoveryManagerInit ==
    /\ intact = {}
    /\ rec_pc = "idle"
    /\ runs = 0
    /\ baseline = << >>

\* the components outside the Index Store and the poll loop, as built
RestInit ==
    /\ TrackerInit /\ CameraInit /\ SweepInit /\ EmergencyInit
    /\ RecoveryManagerInit
    /\ pb_call = NoOp
    /\ ServiceInit

\* the Segment Writer before its first poll
WriterTaskInit ==
    /\ last_segment_urls = {}
    /\ disk = {}
    /\ clock = 1000
    /\ polls = 0
    /\ offered = {}
    /\ failed_urls = {}
    /\ polled = << >>
    /\ repeated = FALSE

IndexInit == StoreInit /\ WriterTaskInit /\ RestInit


\* the Index Store under its callers and its writer task
Spec == IndexInit /\ [][IndexNext]_vars

(***************************************************************************)
(* Claims about the Index Store.                                           *)
(***************************************************************************)
\* capacity the write queue is meant to have, scaled to the model
QueueCapacity == 2

\* the step is the writer task committing its transaction
WriterCommitted == writer_pc = "commit" /\ writer_pc' = "get"

\* C1: every mutation of the recordings table is applied by the single
\* writer task that consumes the write queue: no other thread ever holds an
\* open write transaction on the table, and every step that changes the
\* committed rows is the writer's commit.
C1_SingleWriter ==
    [][ /\ db_owner' \in {None, Writer}
        /\ (recordings' # recordings => WriterCommitted) ]_vars

\* s is the only insert ever queued for its path and for its
\* (camera_id, start_time_ms)
SoleUse(s) ==
    /\ Cardinality({ i \in 1..Len(enqueued) : enqueued[i] = s }) = 1
    /\ \A i \in 1..Len(enqueued) :
          UniqueViolation({enqueued[i]}, s) => enqueued[i] = s

WriterIdle == write_queue = << >> /\ writer_pc = "get"

\* C2: after a caller has issued add_recording(s) and then
\* delete_segment(s.segment_path), once the write queue is drained the range
\* [s.start, s.start + 1) of s's camera is empty.
C2_InsertDeleteEmpty ==
    \A s \in pair_done :
        (WriterIdle /\ SoleUse(s)) =>
            get_segments(recordings, s.camera_id, s.start_time_ms,
                         s.start_time_ms + 1) = << >>

\* C3: the writer handles the inserts of one camera in the order they were
\* queued, whatever inserts of other cameras lie between them.
C3_PerCameraFifo ==
    \A i, j \in 1..Len(applied) :
        (i < j /\ enqueued[applied[i]].camera_id = enqueued[applied[j]].camera_id)
            => applied[i] < applied[j]

\* two inserts of one camera were handled with one of another camera between
C3_Witness ==
    \E i, j, k \in 1..Len(applied) :
        /\ i < k /\ k < j
        /\ enqueued[applied[i]].camera_id = enqueued[applied[j]].camera_id
        /\ enqueued[applied[k]].camera_id # enqueued[applied[i]].camera_id

\* C4: when the writer commits the insert of a row s (its path and its
\* (camera_id, start_time_ms) were not in the table), the range
\* [s.start, s.start + 1) of s's camera is exactly <<s>>.
C4_InsertThenRange ==
    [][ (WriterCommitted /\ recordings' # recordings) =>
          get_segments(recordings', writer_op.row.camera_id,
                       writer_op.row.start_time_ms,
                       writer_op.row.start_time_ms + 1) = << writer_op.row >>
      ]_vars

\* an applied insert whose camera also holds a row one millisecond later
C4_Witness ==
    /\ applied # << >>
    /\ \E r, q \in recordings :
          /\ r.camera_id = q.camera_id
          /\ q.start_time_ms = r.start_time_ms + 1
          /\ \E i \in 1..Len(applied) : enqueued[applied[i]] = r

Unique(recs) ==
    \A r, q \in recs :
        r # q => /\ r.segment_path # q.segment_path
                 /\ ~(r.camera_id = q.camera_id
                        /\ r.start_time_ms = q.start_time_ms)

\* the writer takes its step on an insert that violates a constraint
ConflictStep ==
    /\ writer_pc = "execute"
    /\ db_owner = None
    /\ UniqueViolation(recordings, writer_op.row)
    /\ writer_pc' # writer_pc

\* C5: no two rows share (camera_id, start_time_ms) or segment_path; an
\* insert that would violate either is dropped: the rows stay as they are,
\* the operation is not queued again, and the writer is back at taking the
\* next operation from the queue.
C5_UniqueAndDropped ==
    [][ /\ Unique(recordings')
        /\ ConflictStep =>
             /\ recordings' = recordings
             /\ write_queue' = write_queue
             /\ writer_op' = NoOp
             /\ writer_pc' = "get" ]_vars

\* a conflicting insert was dropped and an insert queued after it is applied
C5_Witness ==
    \E i, j \in 1..Len(applied) :
        /\ i < j
        /\ enqueued[applied[i]] \notin recordings
        /\ UniqueViolation(recordings, enqueued[applied[i]])
        /\ enqueued[applied[j]] \in recordings

Range(f) == { f[i] : i \in DOMAIN f }

\* the rows the range [t0, t1) of a camera is meant to hold
InRange(recs, c, t0, t1) ==
    { r \in recs : /\ r.camera_id = c
                   /\ r.is_valid
                   /\ t0 <= r.start_time_ms
                   /\ r.start_time_ms < t1 }

\* C6: get_segments(camera, t0, t1) returns exactly the valid rows of the
\* camera with t0 <= start_time < t1, each once, in strictly ascending
\* start order; adjacent ranges are disjoint and add up to the whole range.
C6_RangeQuery ==
    \A c \in Cameras, t0, t1 \in QueryTimes :
        LET res == get_segments(recordings, c, t0, t1)
        IN  /\ Range(res) = InRange(recordings, c, t0, t1)
            /\ Len(res) = Cardinality(Range(res))
            /\ \A i, j \in 1..Len(res) :
                  i < j => res[i].start_time_ms < res[j].start_time_ms
            /\ \A t2 \in QueryTimes :
                  (t0 < t1 /\ t1 < t2) =>
                     LET a == Range(res)
                         b == Range(get_segments(recordings, c, t1, t2))
                         w == Range(get_segments(recordings, c, t0, t2))
                     IN  a \cap b = {} /\ a \cup b = w

\* a camera holds two valid rows, one of them on a whole second
C6_Witness ==
    \E c \in Cameras :
        Len(get_segments(recordings, c, 999, 1001)) = 2

\* no query gives a row with the path p
Hidden(recs, p) ==
    /\ \A c \in Cameras, t0, t1 \in QueryTimes \cup {NoTime} :
          LET segs == get_segments_for_playback(recs, c, t0, t1)
          IN  /\ \A r \in Range(get_segments(recs, c, t0, t1)) :
                    r.segment_path # p
              /\ \A r \in Range(segs) : r.segment_path # p
              /\ \A l \in Range(generate_hls_playlist(c, segs)) : l[2] # p
    /\ \A c \in Cameras, ts \in QueryTimes :
          \A r \in get_segment_by_timestamp(recs, c, ts) : r.segment_path # p

\* C7: once a row is marked invalid it stays invalid until it is deleted,
\* and no query (range, segment at an instant, playback list, playlist)
\* gives its segment.
C7_InvalidHidden ==
    [][ /\ \A r \in recordings' :
              ~r.is_valid => Hidden(recordings', r.segment_path)
        /\ \A r \in recordings : \A q \in recordings' :
              (~r.is_valid /\ q.segment_path = r.segment_path)
                 => ~q.is_valid ]_vars

\* a row is invalid and an insert for its path has been handled since
C7_Witness ==
    \E r \in recordings :
        /\ ~r.is_valid
        /\ \E i \in 1..Len(applied) :
              /\ enqueued[applied[i]].segment_path = r.segment_path
              /\ enqueued[applied[i]].start_time_ms # r.start_time_ms

\* C8: while a delete_segments_batch transaction is open every row of the
\* batch that was there when it began is still visible to readers; the rows
\* go away together in the step that commits, and a failed batch removes
\* nothing.
C8_BatchAtomic ==
    [][ \A t \in Threads :
          (thread_op[t].type = "delete_segments_batch" /\ db_owner = t) =>
             \/ recordings' = recordings
             \/ /\ thread_pc[t] = "commit"
                /\ thread_pc'[t] = "idle"
                /\ recordings' = recordings \ thread_op[t].pre ]_vars

\* a batch naming two indexed rows has deleted one of them in its open
\* transaction
C8_Witness ==
    \E t \in Threads :
        /\ thread_op[t].type = "delete_segments_batch"
        /\ db_owner = t
        /\ thread_pc[t] = "execute"
        /\ Cardinality(thread_op[t].pre) = 2
        /\ Cardinality(Named(recordings, thread_op[t].paths)) = 2
        /\ tx # recordings

\* C9: the write queue never holds more than its capacity.
C9_QueueBounded == Len(write_queue) <= QueueCapacity

(***************************************************************************)
(* The Segment Writer: RecordingEngine._process_hls_stream for one camera. *)
(***************************************************************************)
\* polls of the media playlist
MaxPolls == 3
\* URI lines in one media playlist
MaxWindow == 2
\* largest #EXT-X-MEDIA-SEQUENCE value the gateway sends
MaxSeq == 1

PollCamera == "cam1"

\* URI lines of the gateway's media playlist, as the tokens they are made of:
\* two full segments, a low-latency part and the init segment
Lines == { << "_seg", "1" >>, << "_seg", "2" >>, << "_part", "0" >>,
           << "_init" >> }

\* Python's "tok in line"
Contains(line, tok) == \E i \in DOMAIN line : line[i] = tok

\* urljoin(base_url, line) for a relative URI line
urljoin(base_url, line) == << base_url >> \o line

\* segment_url.split('/')[-1].replace('.mp4', '')
SegmentName(segment_url) == Tail(segment_url)

\* the filter of _parse_segment_playlist on one URI line
IsFullSegment(line) ==
    /\ Contains(line, "_seg")
    /\ ~Contains(line, "_part")
    /\ ~Contains(line, "_init")

RECURSIVE _parse_segment_playlist(_, _)
\* _parse_segment_playlist: the segment URLs of the URI lines, in order
_parse_segment_playlist(lines, base_url) ==
    IF lines = << >> THEN << >>
    ELSE (IF IsFullSegment(Head(lines))
            THEN << urljoin(base_url, Head(lines)) >> ELSE << >>)
         \o _parse_segment_playlist(Tail(lines), base_url)

\* the media playlists the gateway may serve: distinct URI lines, and the
\* #EXT-X-MEDIA-SEQUENCE header, whose value may fail to parse as an int
Playlists ==
    [ lines : { l \in UNION { [1..n -> Lines] : n \in 0..MaxWindow } :
                  \A i, j \in DOMAIN l : i # j => l[i] # l[j] },
      media_sequence : 0..MaxSeq,
      well_formed : BOOLEAN ]

\* _download_and_process_segment when the download and the write succeed:
\* the file is named after the wall clock and the segment, and its row is
\* handed to add_recording
SegmentPath(camera_id, now, segment_name) == << camera_id, now, segment_name >>

RECURSIVE ProcessSegments(_, _, _, _)
\* "for segment_url in segments: if segment_url in new_segments: ..." on the
\* state st = [clock, disk, write_queue, enqueued]; a URL in failed raises
\* inside _download_and_process_segment, which logs the exception and returns
ProcessSegments(segments, new_segments, failed, st) ==
    IF segments = << >> THEN st
    ELSE LET segment_url == Head(segments)
             path == SegmentPath(PollCamera, st.clock,
                                 SegmentName(segment_url))
             row  == Row(PollCamera, path, st.clock, segment_duration_ms,
                         st.clock)
             next ==
               IF segment_url \notin new_segments THEN st
               ELSE IF segment_url \in failed
                 THEN [st EXCEPT !.clock = st.clock + 1]
                 ELSE [clock       |-> st.clock + 1,
                       disk        |-> st.disk \cup {path},
                       write_queue |-> QueuePut(st.write_queue,
                                          [op_type |-> "insert_recording",
                                           row |-> row,
                                           seq |-> Len(st.enqueued) + 1]),
                       enqueued    |-> Append(st.enqueued, row)]
         IN  ProcessSegments(Tail(segments), new_segments, failed, next)

\* mutant: every URL of the playlist taken as new on every poll
NewSegments_all(current_segment_urls, last_urls) == current_segment_urls

\* the new segments of a poll: URL-set difference with the previous poll
NewSegments(current_segment_urls, last_urls) ==
    current_segment_urls \ last_urls

\* last_segment_urls after a poll that processed new segments
SeenAfterPoll(current_segment_urls, last_urls, failed) ==
    current_segment_urls

\* one iteration of the while loop of _process_hls_stream on a playlist that
\* is fetched and parsed
Poll(content, failed) ==
    /\ polls < MaxPolls
    /\ content.well_formed
    /\ LET segments == _parse_segment_playlist(content.lines, "base")
           current_segment_urls == { segments[i] : i \in DOMAIN segments }
           new_segments == NewSegments(current_segment_urls, last_segment_urls)
           st == ProcessSegments(segments, new_segments, failed,
                    [clock |-> clock, disk |-> disk,
                     write_queue |-> write_queue, enqueued |-> enqueued])
       IN  /\ failed \subseteq new_segments
           /\ clock' = st.clock
           /\ disk' = st.disk
           /\ write_queue' = st.write_queue
           /\ enqueued' = st.enqueued
           /\ last_segment_urls' =
                 IF new_segments # {}
                 THEN SeenAfterPoll(current_segment_urls, last_segment_urls,
                                    failed)
                 ELSE last_segment_urls
           /\ offered' = offered \cup current_segment_urls
           /\ failed_urls' = failed_urls \cup failed
           /\ polled' = << current_segment_urls >>
           /\ repeated' = (polled = << current_segment_urls >>)
    /\ polls' = polls + 1
    /\ UNCHANGED << recordings, writer_pc, writer_op, lock_owner, db_owner,
                    tx, thread_pc, thread_op, ops, applied, pair_done,
                    last_call, rest_vars >>

\* requests.get of a playlist raises a RequestException: caught inside the
\* loop, which sleeps and polls again with its state as it was
PollRequestError ==
    /\ polls < MaxPolls
    /\ polls' = polls + 1
    /\ polled' = << >>
    /\ repeated' = FALSE
    /\ UNCHANGED << index_vars, last_segment_urls, disk, clock, offered,
                    failed_urls, rest_vars >>

\* the header does not parse (int() raises ValueError): the exception leaves
\* _process_hls_stream; _record_camera records it and calls
\* _process_hls_stream again, which starts with last_segment_urls = set()
PollEscapes(content) ==
    /\ polls < MaxPolls
    /\ ~content.well_formed
    /\ last_segment_urls' = {}
    /\ polls' = polls + 1
    /\ polled' = << >>
    /\ repeated' = FALSE
    /\ UNCHANGED << index_vars, disk, clock, offered, failed_urls,
                    rest_vars >>

PollInit == StoreInit /\ WriterTaskInit /\ RestInit

PollNext ==
    \/ \E content \in Playlists :
          \E failed \in SUBSET { urljoin("base", l) : l \in Lines } :
             Poll(content, failed)
    \/ PollRequestError
    \/ \E content \in Playlists : PollEscapes(content)

\* one camera's Segment Writer polling the gateway
SpecPoll == PollInit /\ [][PollNext]_vars

\* files written for a URL, and inserts queued for it
Writes(u) == Cardinality({ f \in disk : f[3] = SegmentName(u) })

Inserts(u) ==
    Cardinality({ i \in 1..Len(enqueued) :
                    enqueued[i].segment_path[3] = SegmentName(u) })

\* C10: across any sequence of polls of one camera (replayed URL sets, a URL
\* that leaves the playlist and comes back, the poll loop entered again after
\* an error), every segment URL that passed the filter and whose download
\* never raised has been written to disk exactly once and queued for
\* insertion exactly once.
C10_ExactlyOnce ==
    \A u \in offered \ failed_urls : Writes(u) = 1 /\ Inserts(u) = 1

\* the step is a poll that got and parsed a playlist
PollStep == polls' = polls + 1 /\ polled' # << >>

\* C11: a poll whose filtered URL set equals that of the poll just before it
\* writes no file, queues no insert and leaves last_segment_urls as it was,
\* whatever media sequence the playlists carry.
C11_RepeatedPollIdle ==
    [][ (PollStep /\ polled # << >> /\ polled' = polled) =>
           /\ disk' = disk
           /\ enqueued' = enqueued
           /\ write_queue' = write_queue
           /\ last_segment_urls' = last_segment_urls ]_vars

\* two polls in a row listed the same non-empty URL set, the first one
\* having written a file
C11_Witness ==
    /\ repeated
    /\ polled[1] # {}
    /\ polled[1] = last_segment_urls
    /\ Len(enqueued) = 1
    /\ clock = 1001

\* C12: a URL whose download or write failed in a poll is not in
\* last_segment_urls after that poll.
C12_FailedNotSeen ==
    [][ \A u \in failed_urls' \ failed_urls : u \notin last_segment_urls' ]_vars

(***************************************************************************)
(* RecoveryTracker.record_error / _should_trigger_recovery /               *)
(* mark_recovered, on the tracker state tr = [camera_error_counts,         *)
(* camera_last_error_time, camera_last_recovery_time].                     *)
(***************************************************************************)
\* mutant: the cooldown test left out
_should_trigger_recovery_no_cooldown(tr, camera_id, current_time) ==
    LET error_count == tr.camera_error_counts[camera_id]
        last_error_time == tr.camera_last_error_time[camera_id]
        time_since_last_error == current_time - last_error_time
    IN  IF time_since_last_error > error_window_seconds
        THEN [tr  |-> [tr EXCEPT !.camera_error_counts[camera_id] = 1],
              ret |-> FALSE]
        ELSE [tr |-> tr, ret |-> error_count >= error_threshold]

\* _should_trigger_recovery: gives the tracker state (the count may be reset)
\* and the returned flag
_should_trigger_recovery(tr, camera_id, current_time) ==
    LET error_count == tr.camera_error_counts[camera_id]
        last_error_time == tr.camera_last_error_time[camera_id]
        last_recovery_time == tr.camera_last_recovery_time[camera_id]
        time_since_last_error == current_time - last_error_time
        time_since_last_recovery == current_time - last_recovery_time
    IN  IF time_since_last_error > error_window_seconds
        THEN [tr  |-> [tr EXCEPT !.camera_error_counts[camera_id] = 1],
              ret |-> FALSE]
        ELSE IF time_since_last_recovery < recovery_cooldown_seconds
        THEN [tr |-> tr, ret |-> FALSE]
        ELSE [tr |-> tr, ret |-> error_count >= error_threshold]

\* record_error: the count is incremented and camera_last_error_time is set
\* to the current time before _should_trigger_recovery reads them
record_error(tr, camera_id, current_time) ==
    LET counted == [tr EXCEPT
                      !.camera_error_counts[camera_id] = @ + 1,
                      !.camera_last_error_time[camera_id] = current_time]
        checked == _should_trigger_recovery(counted, camera_id, current_time)
    IN  IF checked.ret
        THEN [tr  |-> [checked.tr EXCEPT
                         !.camera_last_recovery_time[camera_id] = current_time],
              ret |-> TRUE]
        ELSE checked

\* mark_recovered: self.camera_error_counts[camera_id] = 0
mark_recovered(tr, camera_id) ==
    [tr EXCEPT !.camera_error_counts[camera_id] = 0]

Tracker ==
    [camera_error_counts       |-> camera_error_counts,
     camera_last_error_time    |-> camera_last_error_time,
     camera_last_recovery_time |-> camera_last_recovery_time]

SetTracker(tr) ==
    /\ camera_error_counts' = tr.camera_error_counts
    /\ camera_last_error_time' = tr.camera_last_error_time
    /\ camera_last_recovery_time' = tr.camera_last_recovery_time

\* steps of the clock between two calls
MaxTicks == 3
\* calls made to the tracker
MaxCalls == 6
\* seconds the clock may advance in one step
Elapsed == {1, 29, 31}

\* time passes
Tick(d) ==
    /\ ticks < MaxTicks
    /\ ticks' = ticks + 1
    /\ epoch' = epoch + d
    /\ UNCHANGED << index_vars, poll_vars, camera_error_counts,
                    camera_last_error_time, camera_last_recovery_time,
                    calls, last_result, camera_vars, sweep_vars,
                    extra_vars >>

\* a Segment Writer calls record_error(camera_id, error_type, message)
RecordErrorCall(camera_id) ==
    /\ calls < MaxCalls
    /\ calls' = calls + 1
    /\ LET res == record_error(Tracker, camera_id, epoch)
       IN  /\ SetTracker(res.tr)
           /\ last_result' =
                 [type |-> "record_error",
                  camera_id |-> camera_id,
                  ret |-> res.ret,
                  time |-> epoch,
                  count_before |-> camera_error_counts[camera_id],
                  prev_error_time |-> camera_last_error_time[camera_id],
                  prev_recovery_time |-> camera_last_recovery_time[camera_id]]
    /\ UNCHANGED << index_vars, poll_vars, epoch, ticks, camera_vars,
                    sweep_vars, extra_vars >>

\* a Segment Writer calls mark_recovered(camera_id)
MarkRecoveredCall(camera_id) ==
    /\ calls < MaxCalls
    /\ calls' = calls + 1
    /\ SetTracker(mark_recovered(Tracker, camera_id))
    /\ last_result' = NoOp
    /\ UNCHANGED << index_vars, poll_vars, epoch, ticks, camera_vars,
                    sweep_vars, extra_vars >>

TrackerSpecInit == StoreInit /\ WriterTaskInit /\ RestInit

TrackerNext ==
    \/ \E d \in Elapsed : Tick(d)
    \/ \E c \in Cameras : RecordErrorCall(c)
    \/ \E c \in Cameras : MarkRecoveredCall(c)

\* the Recovery Tracker under its callers and the clock
SpecTracker == TrackerSpecInit /\ [][TrackerNext]_vars

\* the latest call was record_error for a camera that had an error before
AfterRecordError ==
    /\ last_result # NoOp
    /\ last_result.prev_error_time # 0

\* seconds between the latest record_error and the camera's error before it
SincePreviousError == last_result.time - last_result.prev_error_time

\* C15: record_error called more than 60 s after the camera's previous error
\* leaves the camera's count at 1 and returns false.
C15_WindowReset ==
    (AfterRecordError /\ SincePreviousError > error_window_seconds) =>
        /\ camera_error_counts[last_result.camera_id] = 1
        /\ ~last_result.ret

\* C16: record_error called within 60 s of the camera's previous error adds
\* one to the count and returns true exactly when the new count is >= 5 and
\* the last recovery trigger of the camera is at least 30 s old (or there was
\* none), stamping last-recovery = now; so two true results of a camera are
\* at least 30 s apart.
C16_ThresholdAndCooldown ==
    (AfterRecordError /\ SincePreviousError <= error_window_seconds) =>
        LET c == last_result.camera_id
            cooled == \/ last_result.prev_recovery_time = 0
                      \/ last_result.time - last_result.prev_recovery_time
                            >= recovery_cooldown_seconds
        IN  /\ camera_error_counts[c] = last_result.count_before + 1
            /\ last_result.ret <=>
                  (camera_error_counts[c] >= error_threshold /\ cooled)
            /\ camera_last_recovery_time[c] =
                  IF last_result.ret THEN last_result.time
                  ELSE last_result.prev_recovery_time

\* a second trigger for a camera, exactly 30 s after its first
C16_Witness ==
    /\ AfterRecordError
    /\ last_result.ret
    /\ last_result.prev_recovery_time # 0
    /\ last_result.time - last_result.prev_recovery_time
          = recovery_cooldown_seconds
    /\ SincePreviousError <= error_window_seconds

(***************************************************************************)
(* One camera's Segment Writer task: RecordingEngine._record_camera and    *)
(* the loop of _process_hls_stream, with the errors each statement may     *)
(* raise.  Of the exceptions raised inside _process_hls_stream only the    *)
(* ValueError of int() in _parse_segment_playlist reaches _record_camera:  *)
(* a RequestException of a playlist fetch is caught inside the loop, and   *)
(* _download_init_segment and _download_and_process_segment catch          *)
(* everything.                                                             *)
(***************************************************************************)
\* loop iterations of one camera's task
MaxSteps == 7

\* the seconds _record_camera sleeps after an error it does not recover from
Backoff(error_type) ==
    CASE error_type = "write_failure"     -> 1
      [] error_type = "timeout"           -> 2
      [] error_type = "stream_disconnect" -> 3
      [] OTHER                            -> 1

\* what the camera's task leaves alone
camera_frame == << index_vars, poll_vars, ticks, calls, last_result,
                   sweep_vars, extra_vars >>

\* camera_storage.mkdir(parents=True, exist_ok=True): it runs before the
\* while loop and outside its try, so an OSError leaves _record_camera
RecordCameraStart(ok) ==
    /\ cam_pc = "start"
    /\ cam_pc' = IF ~ok THEN "dead"
                 ELSE IF is_running THEN "stream" ELSE "stopped"
    /\ last_error' = IF ok THEN NoOp
                     ELSE [site |-> "mkdir", class |-> "write_failure"]
    /\ init_segment_downloaded' = FALSE
    /\ last_report' = None
    /\ last_sleep' = 0
    /\ last_write' = None
    /\ wrote_after_recovery' = FALSE
    /\ UNCHANGED << is_running, init_segments, steps, recovering,
                    camera_error_counts, camera_last_error_time,
                    camera_last_recovery_time, epoch, camera_frame >>

\* "if not init_segment_downloaded: self._download_init_segment(...)": the
\* cache after it; a failed fetch is logged and leaves the cache as it was
InitAfterFetch(init_ok) ==
    IF init_segment_downloaded \/ PollCamera \in init_segments
    THEN init_segments
    ELSE IF init_ok THEN init_segments \cup {PollCamera}
    ELSE init_segments

\* requests.get of the master playlist or of the segment playlist raises a
\* Timeout or a ConnectionError: "except requests.RequestException" inside
\* the loop logs a warning and sleeps 2 s
PollFetchFails(site, class, init_ok) ==
    /\ cam_pc = "stream"
    /\ is_running
    /\ steps < MaxSteps
    /\ steps' = steps + 1
    /\ IF site = "playlist"
       THEN /\ init_segments' = InitAfterFetch(init_ok)
            /\ init_segment_downloaded' = TRUE
       ELSE UNCHANGED << init_segments, init_segment_downloaded >>
    /\ last_error' = [site |-> site, class |-> class]
    /\ last_report' = None
    /\ last_sleep' = 2
    /\ epoch' = epoch + 2
    /\ last_write' = None
    /\ wrote_after_recovery' = FALSE
    /\ UNCHANGED << is_running, cam_pc, recovering, camera_error_counts,
                    camera_last_error_time, camera_last_recovery_time,
                    camera_frame >>

\* int() of the media sequence raises ValueError: it leaves
\* _process_hls_stream; "except Exception" of _record_camera counts it,
\* calls record_error(camera_id, 'unknown', ...), runs _attempt_recovery
\* (evict the init segment, sleep 5 s) or sleeps 1 s, and the while loop
\* calls _process_hls_stream again, with its locals fresh
PollParseFails(init_ok) ==
    /\ cam_pc = "stream"
    /\ is_running
    /\ steps < MaxSteps
    /\ steps' = steps + 1
    /\ LET res == record_error(Tracker, PollCamera, epoch)
           cache == InitAfterFetch(init_ok)
       IN  /\ SetTracker(res.tr)
           /\ init_segments' = IF res.ret THEN cache \ {PollCamera} ELSE cache
           /\ last_sleep' = IF res.ret THEN 5 ELSE Backoff("unknown")
           /\ epoch' = epoch + (IF res.ret THEN 5 ELSE Backoff("unknown"))
           /\ recovering' = (recovering \/ res.ret)
    /\ init_segment_downloaded' = FALSE
    /\ last_error' = [site |-> "parse", class |-> "unknown"]
    /\ last_report' = "unknown"
    /\ last_write' = None
    /\ wrote_after_recovery' = FALSE
    /\ UNCHANGED << is_running, cam_pc, camera_frame >>

\* an iteration that gets and parses the playlist; outcome is what happens
\* to its new segment: "none" (no new URL), "ok" (written and indexed), or
\* the class of the exception that _download_and_process_segment meets,
\* logs and swallows; then time.sleep(0.5)
PollSegment(init_ok, outcome, late) ==
    /\ cam_pc = "stream"
    /\ is_running
    /\ steps < MaxSteps
    /\ steps' = steps + 1
    /\ init_segments' = InitAfterFetch(init_ok)
    /\ init_segment_downloaded' = TRUE
    /\ last_write' =
          IF outcome # "ok" THEN None
          ELSE IF PollCamera \in InitAfterFetch(init_ok)
               THEN "init+fragment" ELSE "fragment"
    /\ wrote_after_recovery' = (outcome = "ok" /\ recovering)
    /\ recovering' = (recovering /\ outcome # "ok")
    /\ last_error' = IF outcome \in {"none", "ok"} THEN NoOp
                     ELSE [site |-> "segment", class |-> outcome]
    /\ last_report' = None
    /\ last_sleep' = 0
    /\ epoch' = epoch + late
    /\ UNCHANGED << is_running, cam_pc, camera_error_counts,
                    camera_last_error_time, camera_last_recovery_time,
                    camera_frame >>

\* RecordingEngine.stop(): self.is_running = False
Stop ==
    /\ is_running
    /\ is_running' = FALSE
    /\ UNCHANGED << cam_pc, init_segments, init_segment_downloaded, steps,
                    last_error, last_report, last_sleep, last_write,
                    recovering, wrote_after_recovery, camera_error_counts,
                    camera_last_error_time, camera_last_recovery_time,
                    epoch, camera_frame >>

\* "while self.is_running" of _process_hls_stream ends, the function
\* returns, _record_camera calls mark_recovered(camera_id) and its own
\* while loop ends
StreamReturns ==
    /\ cam_pc = "stream"
    /\ ~is_running
    /\ SetTracker(mark_recovered(Tracker, PollCamera))
    /\ cam_pc' = "stopped"
    /\ last_error' = NoOp
    /\ last_report' = None
    /\ last_sleep' = 0
    /\ last_write' = None
    /\ wrote_after_recovery' = FALSE
    /\ UNCHANGED << is_running, init_segments, init_segment_downloaded,
                    steps, recovering, epoch, camera_frame >>

CameraSpecInit == StoreInit /\ WriterTaskInit /\ RestInit

CameraNext ==
    \/ \E ok \in BOOLEAN : RecordCameraStart(ok)
    \/ \E site \in {"master", "playlist"},
          class \in {"timeout", "stream_disconnect"},
          init_ok \in BOOLEAN : PollFetchFails(site, class, init_ok)
    \/ \E init_ok \in BOOLEAN : PollParseFails(init_ok)
    \/ \E init_ok \in BOOLEAN,
          outcome \in {"none", "ok", "timeout", "stream_disconnect",
                       "write_failure"},
          late \in {0, 1} : PollSegment(init_ok, outcome, late)
    \/ Stop
    \/ StreamReturns

\* one camera's Segment Writer task from start to stop
SpecCamera == CameraSpecInit /\ [][CameraNext]_vars

\* C13: a filesystem error, timeout or connection failure met while fetching
\* a playlist, downloading a segment or writing its file is given to
\* record_error with its class, the task sleeps the backoff of the class and
\* is back in the poll loop.
C13_ErrorsReported ==
    ( /\ last_error # NoOp
      /\ last_error.site \in {"master", "playlist", "segment"}
      /\ last_error.class \in {"write_failure", "timeout",
                                "stream_disconnect"} ) =>
        /\ last_report = last_error.class
        /\ last_sleep = Backoff(last_error.class)
        /\ cam_pc = "stream"

\* C14: while is_running is set the camera's task has neither returned nor
\* been left by an exception.
C14_NeverExits == is_running => cam_pc \in {"start", "stream"}

\* C17: when a step makes the first successful write after a recovery
\* action, the camera's error count is 0 at the end of that step, the task
\* still running.
C17_RecoveredAfterWrite ==
    (is_running /\ cam_pc = "stream" /\ wrote_after_recovery) =>
        camera_error_counts[PollCamera] = 0

\* C18: no segment file is written without the init segment in front of the
\* fragment.
C18_InitPrepended == last_write # "fragment"

(***************************************************************************)
(* Cleanup passes over an index with old rows:                             *)
(* RetentionManager.cleanup_old_recordings (scheduled, all cameras) and    *)
(* EmergencyCleanupManager._cleanup_camera (one camera).                   *)
(***************************************************************************)
\* cleanup passes in one behaviour
MaxSweeps == 2
\* batch_size of cleanup_old_recordings (1000 in the source), scaled
BatchSize == 2

\* RecordingIndex.get_old_segments: no is_valid filter; camera_id may be None
get_old_segments(recs, before_date, camera_id) ==
    OrderByStartTime(
      { r \in recs :
          /\ TextLess(r.start_time, DatetimeText(before_date))
          /\ (camera_id # None => r.camera_id = camera_id) })

\* the segment_path column of a list of rows
PathsOf(rows) == [i \in DOMAIN rows |-> rows[i].segment_path]

\* the tables a cleanup pass may find: any rows of the paths, start times
\* distinct within a camera
Tables ==
    { tbl \in { { Row(CameraOf(q), q, f[q], segment_duration_ms, f[q])
                   : q \in DOMAIN f }
                 : f \in UNION { [S -> QueryTimes] : S \in SUBSET Paths } }
        : Unique(tbl) /\ tbl # {} }

\* what a cleanup pass leaves alone
sweep_frame == << write_queue, writer_pc, writer_op, lock_owner, db_owner,
                 tx, thread_pc, thread_op, ops, enqueued, applied,
                 pair_done, last_call, last_segment_urls, clock, polls,
                 offered, failed_urls, polled, repeated, tracker_vars,
                 camera_vars, extra_vars >>

\* the start of a pass: cutoff_date and old_segments; "if not old_segments:
\* return"
BeginSweep(kind, camera_id, cutoff_date) ==
    /\ sweep.type \in {None, "done"}
    /\ sweeps < MaxSweeps
    /\ sweeps' = sweeps + 1
    /\ LET old_segments == get_old_segments(recordings, cutoff_date, camera_id)
       IN  sweep' = [type |-> IF old_segments = << >> THEN "done" ELSE kind,
                     kind |-> kind,
                     camera_id |-> camera_id,
                     cutoff |-> cutoff_date,
                     todo |-> PathsOf(old_segments),
                     segment_paths_to_delete |-> << >>,
                     started |-> clock,
                     removed |-> {},
                     pre |-> recordings]
    /\ UNCHANGED << recordings, disk, sweep_frame >>

\* RetentionManager.cleanup_old_recordings up to its loop
RetentionStart(cutoff_date) == BeginSweep("retention", None, cutoff_date)

\* EmergencyCleanupManager._cleanup_camera up to its loop
EmergencyStart(camera_id, cutoff_date) ==
    BeginSweep("emergency", camera_id, cutoff_date)

\* delete_segments_batch as the pass sees it: all rows of the list gone, or
\* (sqlite3 error, 0 returned) none
BatchDeleted(recs, paths, ok) ==
    IF ok THEN recs \ Named(recs, paths) ELSE recs

\* one iteration of the loop of cleanup_old_recordings: the file is removed
\* when it exists, and only then is its path queued for the index; os.remove
\* may raise, which is logged; a full batch is deleted from the index
RetentionFile(remove_ok, batch_ok) ==
    /\ sweep.type = "retention"
    /\ sweep.todo # << >>
    /\ LET segment_path == Head(sweep.todo)
           exists == segment_path \in disk
           queued == IF exists /\ remove_ok
                     THEN Append(sweep.segment_paths_to_delete, segment_path)
                     ELSE sweep.segment_paths_to_delete
           flush == (~exists \/ remove_ok) /\ Len(queued) >= BatchSize
       IN  /\ disk' = IF exists /\ remove_ok THEN disk \ {segment_path}
                       ELSE disk
           /\ recordings' = IF flush
                             THEN BatchDeleted(recordings, queued, batch_ok)
                             ELSE recordings
           /\ sweep' = [sweep EXCEPT
                          !.todo = Tail(sweep.todo),
                          !.removed = IF exists /\ remove_ok
                                      THEN sweep.removed \cup {segment_path}
                                      ELSE sweep.removed,
                          !.segment_paths_to_delete =
                              IF flush THEN << >> ELSE queued]
    /\ UNCHANGED << sweeps, sweep_frame >>

\* after the loop: "if segment_paths_to_delete: delete_segments_batch(...)"
RetentionFinish(batch_ok) ==
    /\ sweep.type = "retention"
    /\ sweep.todo = << >>
    /\ recordings' = BatchDeleted(recordings, sweep.segment_paths_to_delete,
                                  batch_ok)
    /\ sweep' = [sweep EXCEPT !.type = "done",
                              !.segment_paths_to_delete = << >>]
    /\ UNCHANGED << disk, sweeps, sweep_frame >>

\* one iteration of the loop of _cleanup_camera: the file is removed when it
\* exists, then delete_segment(segment_path), which may fail and return
\* False; when os.remove raises the row is left
EmergencyFile(remove_ok, delete_ok) ==
    /\ sweep.type = "emergency"
    /\ sweep.todo # << >>
    /\ LET segment_path == Head(sweep.todo)
           exists == segment_path \in disk
           reached == ~exists \/ remove_ok
       IN  /\ disk' = IF exists /\ remove_ok THEN disk \ {segment_path}
                       ELSE disk
           /\ recordings' = IF reached /\ delete_ok
                             THEN DeleteWhere(recordings, segment_path)
                             ELSE recordings
           /\ sweep' = [sweep EXCEPT
                          !.todo = Tail(sweep.todo),
                          !.removed = IF exists /\ remove_ok
                                      THEN sweep.removed \cup {segment_path}
                                      ELSE sweep.removed]
    /\ UNCHANGED << sweeps, sweep_frame >>

\* after the loop of _cleanup_camera: return deleted_count, freed_space
EmergencyFinish ==
    /\ sweep.type = "emergency"
    /\ sweep.todo = << >>
    /\ sweep' = [sweep EXCEPT !.type = "done"]
    /\ UNCHANGED << recordings, disk, sweeps, sweep_frame >>

\* an index with rows, some of whose files are missing from the disk; the
\* write queue is drained and the other components are as built
CleanupInit ==
    /\ recordings \in Tables
    /\ disk \in SUBSET Paths
    /\ write_queue = << >>
    /\ writer_pc = "get"
    /\ writer_op = NoOp
    /\ lock_owner = None
    /\ db_owner = None
    /\ tx = {}
    /\ thread_pc = [t \in Threads |-> "idle"]
    /\ thread_op = [t \in Threads |-> NoOp]
    /\ ops = 0
    /\ enqueued = << >>
    /\ applied = << >>
    /\ pair_done = {}
    /\ last_call = [t \in Threads |-> NoOp]
    /\ last_segment_urls = {}
    /\ clock = 1000
    /\ polls = 0
    /\ offered = {}
    /\ failed_urls = {}
    /\ polled = << >>
    /\ repeated = FALSE
    /\ RestInit

CleanupNext ==
    \/ \E cutoff_date \in QueryTimes : RetentionStart(cutoff_date)
    \/ \E remove_ok, batch_ok \in BOOLEAN : RetentionFile(remove_ok, batch_ok)
    \/ \E batch_ok \in BOOLEAN : RetentionFinish(batch_ok)
    \/ \E camera_id \in Cameras, cutoff_date \in QueryTimes :
          EmergencyStart(camera_id, cutoff_date)
    \/ \E remove_ok, delete_ok \in BOOLEAN :
          EmergencyFile(remove_ok, delete_ok)
    \/ EmergencyFinish

\* scheduled and emergency cleanup passes over an index
SpecCleanup == CleanupInit /\ [][CleanupNext]_vars

\* a cleanup pass of the kind has just completed
SweepDone(kind) == sweep.type = "done" /\ sweep.kind = kind

\* C19: after a scheduled retention sweep completes the index holds no row
\* that starts before the cutoff, and every row that was there at or after
\* the cutoff is still there.
C19_RetentionCutoff ==
    SweepDone("retention") =>
        /\ \A r \in recordings : r.start_time_ms >= sweep.cutoff
        /\ \A r \in sweep.pre :
              r.start_time_ms >= sweep.cutoff => r \in recordings

\* C20: after a scheduled or emergency cleanup completes, if a row of a
\* camera remains then every row of that camera that started later and was
\* there before the pass remains too.
C20_OldestFirst ==
    sweep.type = "done" =>
        \A r \in recordings : \A q \in sweep.pre :
            (q.camera_id = r.camera_id /\ q.start_time_ms > r.start_time_ms)
                => q \in recordings

(***************************************************************************)
(* Policy-driven cleanup: the scheduled sweep of RetentionManager next to  *)
(* EmergencyCleanupManager._trigger_emergency_cleanup, which the monitor   *)
(* thread and the manual route may both run, and HealthMonitor's sampling  *)
(* of the disk usage.                                                      *)
(***************************************************************************)
\* calls of _trigger_emergency_cleanup in one behaviour
MaxInvocations == 2
\* times the clock is advanced while the emergency passes run
MaxWaits == 1

\* timedelta(days=1), in milliseconds
DayMs == 24 * 60 * 60 * 1000
\* datetime.now() when the services start
Now0 == 20 * DayMs

\* self.emergency_cleanup_cooldown_seconds
emergency_cleanup_cooldown_seconds == 300

Max(a, b) == IF a >= b THEN a ELSE b
Min(a, b) == IF a <= b THEN a ELSE b

\* retention_days after "max(7, min(retention_days, 90))", the clamp of
\* RetentionManager.__init__ and of create_or_update_policy
ClampDays(days) == Max(7, Min(days, 90))

\* retention_days an operator may ask for
PolicyDays == {3, 7, 14}

\* the retention_policies tables the operator may have set up with
\* create_or_update_policy: a clamped retention_days for some cameras
PolicyTables ==
    UNION { [S -> {ClampDays(d) : d \in PolicyDays}] : S \in SUBSET Cameras }

\* ORDER BY camera_id
CameraOrder == << "cam1", "cam2" >>

\* get_all_policies: the rows, ordered by camera_id
get_all_policies(pols) ==
    LET present == SelectSeq(CameraOrder, LAMBDA c : c \in DOMAIN pols)
    IN  [i \in DOMAIN present |->
            [camera_id |-> present[i], retention_days |-> pols[present[i]]]]

\* the place of x in a list sorted by retention_days, longest first: after
\* every entry whose key is not smaller (Python's sort is stable)
RECURSIVE InsertDesc(_, _)
InsertDesc(x, sorted) ==
    IF sorted = << >> THEN << x >>
    ELSE IF Head(sorted).retention_days >= x.retention_days
         THEN << Head(sorted) >> \o InsertDesc(x, Tail(sorted))
         ELSE << x >> \o sorted

\* mutant: shortest retention first
RECURSIVE policies_sorted_asc(_)
policies_sorted_asc(pl) ==
    IF pl = << >> THEN << >>
    ELSE LET rest == policies_sorted_asc(Tail(pl))
             x == Head(pl)
             before == SelectSeq(rest,
                         LAMBDA y : y.retention_days < x.retention_days)
             after == SelectSeq(rest,
                         LAMBDA y : y.retention_days >= x.retention_days)
         IN  before \o << x >> \o after

\* sorted(policies, key=lambda p: p['retention_days'], reverse=True)
RECURSIVE policies_sorted(_)
policies_sorted(pl) ==
    IF pl = << >> THEN << >>
    ELSE LET n == Len(pl)
         IN  InsertDesc(pl[n], policies_sorted(SubSeq(pl, 1, n - 1)))

\* aggressive_days = max(1, policy['retention_days'] // 2)
aggressive_days(days) == Max(1, days \div 2)

\* percent of the disk taken by everything but the segment files
OtherPercent == 80
\* percent of the disk one segment file takes
FilePercent == 4

\* DiskUsageTracker.get_disk_metrics().percent_used for the files on disk
percent_used(files) == OtherPercent + FilePercent * Cardinality(files)

\* age in days of the segments found at the start
AgeDays == {5, 10, 16}

\* the table found at the start for given ages: every path indexed
AgedTable(f) ==
    { Row(CameraOf(q), q, Now0 - f[q] * DayMs, segment_duration_ms,
          Now0 - f[q] * DayMs) : q \in Paths }

\* the tables the scheduled sweep may find
AgedTables ==
    { tbl \in { AgedTable(f) : f \in [Paths -> AgeDays] } : Unique(tbl) }

\* the tables an emergency pass may find: cam1's segments are 10 and 16
\* days old, cam2's is 5 or 10 days old
PressureTables ==
    { AgedTable(f) : f \in { g \in [Paths -> AgeDays] :
                               g["p1"] = 10 /\ g["p2"] = 16 /\ g["p3"] < 16 } }

\* what an emergency pass and the sampler leave alone
emergency_frame == << write_queue, writer_pc, writer_op, lock_owner,
                     db_owner, tx, thread_pc, thread_op, ops, enqueued,
                     applied, pair_done, last_call, last_segment_urls,
                     polls, offered, failed_urls, polled, repeated,
                     camera_error_counts, camera_last_error_time,
                     camera_last_recovery_time, calls, last_result,
                     camera_vars, sweep_vars, retention_days, policies,
                     recovery_vars, pb_call, service_vars >>

\* time passes
Advance(d) ==
    /\ ticks < MaxWaits
    /\ ticks' = ticks + 1
    /\ epoch' = epoch + d
    /\ clock' = clock + d * 1000
    /\ UNCHANGED << recordings, disk, cleanup_history,
                    last_emergency_cleanup, disk_metrics_history, inv,
                    invocations, em_log, emergency_frame >>

\* HealthMonitor._check_health: a sample of the disk is appended
_check_health ==
    /\ disk_metrics_history' = << percent_used(disk) >>
    /\ UNCHANGED << recordings, disk, clock, epoch, ticks, cleanup_history,
                    last_emergency_cleanup, inv, invocations, em_log,
                    emergency_frame >>

\* RetentionManager._cleanup_loop calls cleanup_old_recordings: the cutoff
\* is now minus the manager's own retention_days, for every camera
cleanup_old_recordings == RetentionStart(clock - retention_days * DayMs)

\* _trigger_emergency_cleanup up to its loop: "if not policies: return"
EnterTrigger(t, origin) ==
    /\ inv[t].pc = "idle"
    /\ invocations < MaxInvocations
    /\ invocations' = invocations + 1
    /\ LET all == get_all_policies(policies)
       IN  inv' = [inv EXCEPT ![t] =
                     IF all = << >> THEN NoInvocation
                     ELSE [NoInvocation EXCEPT
                             !.pc = "loop",
                             !.id = invocations + 1,
                             !.origin = origin,
                             !.sample = disk_metrics_history,
                             !.policies_sorted = policies_sorted(all)]]
    /\ UNCHANGED << recordings, disk, clock, epoch, ticks, cleanup_history,
                    last_emergency_cleanup, disk_metrics_history, em_log,
                    emergency_frame >>

\* the monitor thread's _check_and_cleanup: nothing without a sample or
\* below 90 percent
_check_and_cleanup ==
    /\ inv["monitor"].pc = "idle"
    /\ IF /\ disk_metrics_history # << >>
          /\ disk_metrics_history[1] >= 90
       THEN EnterTrigger("monitor", "monitor")
       ELSE UNCHANGED vars

\* POST /retention/emergency-cleanup: the request thread calls
\* _trigger_emergency_cleanup whatever the disk usage is
trigger_emergency_cleanup == EnterTrigger("manual", "manual")

\* the head of one loop iteration: the cooldown check, then _cleanup_camera
\* up to its loop (cutoff_date, old_segments)
VisitCamera(t) ==
    /\ inv[t].pc = "loop"
    /\ inv[t].policies_sorted # << >>
    /\ LET policy == Head(inv[t].policies_sorted)
           camera_id == policy.camera_id
           time_since_cleanup == epoch - last_emergency_cleanup[camera_id]
           days == aggressive_days(policy.retention_days)
           cutoff_date == clock - days * DayMs
           old_segments == get_old_segments(recordings, cutoff_date,
                                            camera_id)
       IN  IF time_since_cleanup < emergency_cleanup_cooldown_seconds
           THEN /\ inv' = [inv EXCEPT ![t].policies_sorted =
                                         Tail(inv[t].policies_sorted)]
                /\ em_log' = em_log
           ELSE /\ inv' = [inv EXCEPT
                             ![t].pc = "sweep",
                             ![t].camera_id = camera_id,
                             ![t].old_segments = PathsOf(old_segments),
                             ![t].entry = Len(em_log) + 1]
                /\ em_log' = Append(em_log,
                      [id |-> inv[t].id,
                       origin |-> inv[t].origin,
                       camera_id |-> camera_id,
                       policy_days |-> policy.retention_days,
                       now |-> clock,
                       cutoff_date |-> cutoff_date,
                       cleanup_type |-> "emergency",
                       started |-> epoch,
                       after_below |-> inv[t].below,
                       deleted_count |-> 0 - 1])
    /\ UNCHANGED << recordings, disk, clock, epoch, ticks, cleanup_history,
                    last_emergency_cleanup, disk_metrics_history,
                    invocations, emergency_frame >>

\* the loop of _cleanup_camera and what follows it in the iteration: each
\* file is removed when it exists and its row deleted, unless os.remove
\* raises (the paths in fails); record_cleanup when a file was removed;
\* last_emergency_cleanup; then the latest disk sample decides the break
SweepCamera(t, fails) ==
    /\ inv[t].pc = "sweep"
    /\ LET camera_id == inv[t].camera_id
           listed == Range(inv[t].old_segments)
           removed == { q \in listed : q \in disk /\ q \notin fails }
           raised == { q \in listed : q \in disk /\ q \in fails }
           deleted_count == Cardinality(removed)
           stop == /\ disk_metrics_history # << >>
                   /\ disk_metrics_history[1] < 85
       IN  /\ fails \subseteq listed \cap disk
           /\ disk' = disk \ removed
           /\ recordings' =
                 { r \in recordings : r.segment_path \notin listed \ raised }
           /\ cleanup_history' =
                 IF deleted_count > 0
                 THEN Append(cleanup_history,
                        [camera_id |-> camera_id,
                         deleted_segments |-> deleted_count,
                         cleanup_type |-> "emergency"])
                 ELSE cleanup_history
           /\ last_emergency_cleanup' =
                 [last_emergency_cleanup EXCEPT ![camera_id] = epoch]
           /\ em_log' = [em_log EXCEPT
                           ![inv[t].entry].deleted_count = deleted_count]
           /\ inv' = [inv EXCEPT
                        ![t].pc = "loop",
                        ![t].camera_id = None,
                        ![t].old_segments = << >>,
                        ![t].policies_sorted =
                            IF stop THEN << >>
                            ELSE Tail(inv[t].policies_sorted),
                        ![t].below = inv[t].below
                                       \/ percent_used(disk') < 85]
    /\ UNCHANGED << clock, epoch, ticks, disk_metrics_history, invocations,
                    emergency_frame >>

\* after the loop: the alert is created and the call returns
CreateAlert(t) ==
    /\ inv[t].pc = "loop"
    /\ inv[t].policies_sorted = << >>
    /\ inv' = [inv EXCEPT ![t] = NoInvocation]
    /\ UNCHANGED << recordings, disk, clock, epoch, ticks, cleanup_history,
                    last_emergency_cleanup, disk_metrics_history,
                    invocations, em_log, emergency_frame >>

\* the Index Store at rest, the poll loop, the tracker and the camera task
\* as built, with the wall clock some days after the services were set up
QuietInit ==
    /\ write_queue = << >>
    /\ writer_pc = "get"
    /\ writer_op = NoOp
    /\ lock_owner = None
    /\ db_owner = None
    /\ tx = {}
    /\ thread_pc = [t \in Threads |-> "idle"]
    /\ thread_op = [t \in Threads |-> NoOp]
    /\ ops = 0
    /\ enqueued = << >>
    /\ applied = << >>
    /\ pair_done = {}
    /\ last_call = [t \in Threads |-> NoOp]
    /\ last_segment_urls = {}
    /\ clock = Now0
    /\ polls = 0
    /\ offered = {}
    /\ failed_urls = {}
    /\ polled = << >>
    /\ repeated = FALSE
    /\ camera_error_counts = [c \in Cameras |-> 0]
    /\ camera_last_error_time = [c \in Cameras |-> 0]
    /\ camera_last_recovery_time = [c \in Cameras |-> 0]
    /\ epoch = Now0 \div 1000
    /\ ticks = 0
    /\ calls = 0
    /\ last_result = NoOp
    /\ CameraInit
    /\ SweepInit

\* no emergency pass has run and no disk sample was taken
NoEmergencyYet ==
    /\ cleanup_history = << >>
    /\ last_emergency_cleanup = [c \in Cameras |-> 0]
    /\ disk_metrics_history = << >>
    /\ inv = [t \in EmThreads |-> NoInvocation]
    /\ invocations = 0
    /\ em_log = << >>

\* every segment indexed and on disk, the manager built with a
\* retention_days, the operator's policies in place
RetentionInit ==
    /\ recordings \in AgedTables
    /\ disk = Paths
    /\ QuietInit
    /\ retention_days \in {ClampDays(d) : d \in PolicyDays}
    /\ policies \in PolicyTables
    /\ NoEmergencyYet
    /\ RecoveryManagerInit
    /\ pb_call = NoOp
    /\ ServiceInit

RetentionNext ==
    \/ cleanup_old_recordings
    \/ \E remove_ok \in BOOLEAN : RetentionFile(remove_ok, TRUE)
    \/ RetentionFinish(TRUE)

\* the scheduled retention sweep under per-camera policies
SpecRetention == RetentionInit /\ [][RetentionNext]_vars

\* the disk above 90 percent, every segment indexed and on disk, the two
\* cameras under policies of different length
EmergencyStartInit ==
    /\ recordings \in PressureTables
    /\ disk = Paths
    /\ QuietInit
    /\ retention_days = ClampDays(30)
    /\ policies \in { pols \in PolicyTables :
                        /\ DOMAIN pols = Cameras
                        /\ pols["cam1"] # pols["cam2"] }
    /\ NoEmergencyYet
    /\ RecoveryManagerInit
    /\ pb_call = NoOp
    /\ ServiceInit

EmergencyNext ==
    \/ Advance(emergency_cleanup_cooldown_seconds)
    \/ _check_health
    \/ _check_and_cleanup
    \/ trigger_emergency_cleanup
    \/ \E t \in EmThreads : VisitCamera(t)
    \/ \E t \in EmThreads : SweepCamera(t, {})
    \/ \E t \in EmThreads : CreateAlert(t)

\* the emergency monitor, the manual trigger and the disk sampler
SpecEmergency == EmergencyStartInit /\ [][EmergencyNext]_vars

\* C21: a scheduled retention sweep removes a segment of a camera only when
\* the segment started before the sweep's start minus the retention_days of
\* that camera's own policy.
C21_PerCameraCutoff ==
    (sweep.type # None /\ sweep.kind = "retention") =>
        \A r \in sweep.pre :
            (r.segment_path \in sweep.removed
               /\ r.camera_id \in DOMAIN policies)
            => r.start_time_ms
                  < sweep.started - policies[r.camera_id] * DayMs

\* C22: a completed scheduled sweep that removed at least one segment has
\* left a cleanup_history record of type 'scheduled' with that count, and
\* every emergency sweep of a camera that removed a segment has left one of
\* type 'emergency' with its count.
C22_HistoryRecorded ==
    /\ (SweepDone("retention") /\ sweep.removed # {}) =>
          \E i \in DOMAIN cleanup_history :
              /\ cleanup_history[i].cleanup_type = "scheduled"
              /\ cleanup_history[i].deleted_segments
                    = Cardinality(sweep.removed)
    /\ \A k \in DOMAIN em_log :
          em_log[k].deleted_count > 0 =>
              \E i \in DOMAIN cleanup_history :
                  cleanup_history[i] =
                      [camera_id |-> em_log[k].camera_id,
                       deleted_segments |-> em_log[k].deleted_count,
                       cleanup_type |-> "emergency"]

\* C23: within one emergency invocation no camera sweep begins after a
\* camera sweep of that invocation that left the disk below 85 percent.
C23_StopsBelow85 ==
    \A k \in DOMAIN em_log : ~em_log[k].after_below

C25_CooldownAndExclusive ==
    /\ \A j, k \in DOMAIN em_log :
          (j < k /\ em_log[j].camera_id = em_log[k].camera_id) =>
              em_log[k].started - em_log[j].started
                 >= emergency_cleanup_cooldown_seconds
    /\ ~ /\ inv["monitor"].pc = "sweep"
         /\ inv["manual"].pc = "sweep"
         /\ inv["monitor"].camera_id = inv["manual"].camera_id

(***************************************************************************)
(* RecoveryManager.verify_and_recover, the Orphan Reconciler, with the     *)
(* Index Store's writer applying the inserts it queues; no live ingest.    *)
(***************************************************************************)
\* the count of completed runs saturates here
MaxRuns == 2
\* max_batch_size of recover_orphaned_files (100 in the source), scaled
max_batch_size == 2

\* int(os.path.getmtime(file_path) * 1000)
FileMtime(q) == IF q = "p1" THEN 999 ELSE 1000

\* the order in which storage_path.rglob('*.mp4') walks the tree
WalkOrder == << "p1", "p2", "p3" >>

\* list(storage_path.rglob('*.mp4'))
rglob(files) == SelectSeq(WalkOrder, LAMBDA q : q \in files)

\* _is_file_valid: the file exists, has 1024 bytes or more and one of the
\* headers ftyp, moof, mdat, free, 0x47
_is_file_valid(filepath) == filepath \in disk /\ filepath \in intact

\* mark_invalid for each of the paths
MarkInvalidAll(recs, paths) ==
    { IF r.segment_path \in paths THEN [r EXCEPT !.is_valid = FALSE] ELSE r
        : r \in recs }

\* what verify_and_recover leaves alone
recovery_frame == << writer_pc, writer_op, lock_owner, db_owner, tx,
                    thread_pc, thread_op, ops, applied, pair_done,
                    last_call, poll_vars, tracker_vars, camera_vars,
                    sweep_vars, emergency_vars, intact, pb_call,
                    service_vars >>

\* step 1 of verify_and_recover: every valid row whose file is missing is
\* marked invalid.  A run starts when the inserts of the run before it have
\* been applied.
_verify_indexed_files ==
    /\ rec_pc = "idle"
    /\ write_queue = << >> /\ writer_pc = "get"
    /\ LET missing == { r.segment_path : r \in
                          { x \in recordings :
                              x.is_valid /\ x.segment_path \notin disk } }
       IN  recordings' = MarkInvalidAll(recordings, missing)
    /\ baseline' = IF runs >= 1 THEN << recordings >> ELSE << >>
    /\ rec_pc' = "orphans"
    /\ UNCHANGED << write_queue, enqueued, runs, recovery_frame >>

\* step 2, recover_orphaned_files: the first max_batch_size files of the
\* walk are looked at, and add_recording is called for each of them whose
\* path is not in the index
recover_orphaned_files ==
    /\ rec_pc = "orphans"
    /\ LET indexed_paths == { r.segment_path : r \in recordings }
           mp4_files == rglob(disk)
           batch == SubSeq(mp4_files, 1, Min(max_batch_size, Len(mp4_files)))
           orphaned == SelectSeq(batch, LAMBDA q : q \notin indexed_paths)
           rows == [i \in DOMAIN orphaned |->
                      Row(CameraOf(orphaned[i]), orphaned[i],
                          FileMtime(orphaned[i]), 3000,
                          FileMtime(orphaned[i]))]
       IN  /\ write_queue' = write_queue \o
                 [i \in DOMAIN rows |->
                    [op_type |-> "insert_recording", row |-> rows[i],
                     seq |-> Len(enqueued) + i]]
           /\ enqueued' = enqueued \o rows
    /\ rec_pc' = "integrity"
    /\ UNCHANGED << recordings, runs, baseline, recovery_frame >>

\* step 3, _verify_file_integrity: every valid row whose file fails
\* _is_file_valid is marked invalid; the run is over
_verify_file_integrity ==
    /\ rec_pc = "integrity"
    /\ db_owner = None
    /\ LET corrupted == { r.segment_path : r \in
                            { x \in recordings :
                                x.is_valid
                                /\ ~_is_file_valid(x.segment_path) } }
       IN  recordings' = MarkInvalidAll(recordings, corrupted)
    /\ rec_pc' = "idle"
    /\ runs' = Min(runs + 1, MaxRuns)
    /\ UNCHANGED << write_queue, enqueued, baseline, recovery_frame >>

\* the rows of the paths, as ingest indexed them
IndexedRows(S) ==
    { Row(CameraOf(q), q, FileMtime(q), segment_duration_ms, FileMtime(q))
        : q \in S }

\* the service starts after a crash: some files are on disk, some of them
\* truncated or without a valid header, some indexed files are gone and
\* some files were never indexed
RecoveryInit ==
    /\ disk \in SUBSET Paths
    /\ intact \in SUBSET disk
    /\ recordings \in { IndexedRows(S) : S \in SUBSET Paths }
    /\ write_queue = << >>
    /\ writer_pc = "get"
    /\ writer_op = NoOp
    /\ lock_owner = None
    /\ db_owner = None
    /\ tx = {}
    /\ thread_pc = [t \in Threads |-> "idle"]
    /\ thread_op = [t \in Threads |-> NoOp]
    /\ ops = 0
    /\ enqueued = << >>
    /\ applied = << >>
    /\ pair_done = {}
    /\ last_call = [t \in Threads |-> NoOp]
    /\ last_segment_urls = {}
    /\ clock = 1000
    /\ polls = 0
    /\ offered = {}
    /\ failed_urls = {}
    /\ polled = << >>
    /\ repeated = FALSE
    /\ TrackerInit /\ CameraInit /\ SweepInit /\ EmergencyInit
    /\ rec_pc = "idle"
    /\ runs = 0
    /\ baseline = << >>
    /\ pb_call = NoOp
    /\ ServiceInit

RecoveryNext ==
    \/ _verify_indexed_files
    \/ recover_orphaned_files
    \/ _verify_file_integrity
    \/ WriterGet
    \/ WriterExecute
    \/ WriterCommit

\* repeated runs of the reconciler next to the index writer
SpecRecovery == RecoveryInit /\ [][RecoveryNext]_vars

\* the same, with the reconciler run again and again and the writer thread
\* scheduled
SpecRecoveryLive ==
    /\ SpecRecovery
    /\ WF_vars(_verify_indexed_files)
    /\ WF_vars(recover_orphaned_files)
    /\ WF_vars(_verify_file_integrity)
    /\ WF_vars(WriterGet)
    /\ WF_vars(WriterExecute)
    /\ WF_vars(WriterCommit)

\* every valid row names a file that exists and passes _is_file_valid
ValidRowsIntact ==
    \A r \in recordings : r.is_valid => _is_file_valid(r.segment_path)

\* C26: no step takes the index from a state where every valid row refers
\* to an existing file of 1024 bytes or more with an accepted header to a
\* state where some valid row does not.
C26_ValidHasFile == [][ValidRowsIntact => ValidRowsIntact']_vars

\* C27: a run of the reconciler that starts after an earlier run has
\* completed and its inserts were applied leaves the table as it found it.
C27_SecondRunNoOp == baseline # << >> => recordings = baseline[1]

\* C28: with the reconciler run again and again, every .mp4 file on disk is
\* eventually in the index.
C28_AllOrphansIndexed ==
    <>(\A q \in disk : \E r \in recordings : r.segment_path = q)

(***************************************************************************)
(* PlaybackManager.validate_time_range and get_playback_info behind the    *)
(* route GET /api/playback/<camera_id>.                                    *)
(***************************************************************************)
HourMs == 60 * 60 * 1000

\* max_duration_hours of validate_time_range
max_duration_hours == 24

\* the instants a client passes as start_time and end_time: around 24 hours
\* before now, in the recorded past, now, and after now
PlaybackTimes ==
    { Now0 - DayMs - 1, Now0 - DayMs, Now0 - 2 * HourMs, Now0,
      Now0 + HourMs, Now0 + HourMs + DayMs, Now0 + HourMs + DayMs + 1 }

\* the tables playback may find: cam1 recorded two hours and one hour ago,
\* cam2 one hour ago
PlaybackTables ==
    { { Row(CameraOf(q), q,
            IF q = "p1" THEN Now0 - 2 * HourMs ELSE Now0 - HourMs,
            segment_duration_ms,
            IF q = "p1" THEN Now0 - 2 * HourMs ELSE Now0 - HourMs)
          : q \in S } : S \in SUBSET Paths }

\* mutant: a range of exactly max_duration_hours is turned down
validate_time_range_ge(start_time, end_time) ==
    IF start_time >= end_time THEN FALSE
    ELSE IF end_time - start_time >= max_duration_hours * HourMs THEN FALSE
    ELSE TRUE

\* PlaybackManager.validate_time_range
validate_time_range(start_time, end_time) ==
    IF start_time >= end_time THEN FALSE
    ELSE IF end_time - start_time > max_duration_hours * HourMs THEN FALSE
    ELSE TRUE

\* PlaybackManager.get_playback_info: the dict returned (its keys, the
\* value of 'error', the value of 'segments') and the number of segment
\* queries made
playback_info(recs, camera_id, start_time, end_time) ==
    IF ~validate_time_range(start_time, end_time)
    THEN [keys |-> {"error"}, error |-> "Invalid time range",
          segments |-> << >>, queries |-> 0]
    ELSE LET segments ==
                 get_segments_for_playback(recs, camera_id, start_time,
                                           end_time)
         IN  IF segments = << >>
             THEN [keys |-> {"camera_id", "start_time", "end_time",
                             "segments", "error"},
                   error |-> "No segments found for time range",
                   segments |-> << >>, queries |-> 1]
             ELSE [keys |-> {"camera_id", "start_time", "end_time",
                             "segment_count", "total_duration_ms",
                             "total_size_bytes", "segments",
                             "playlist_url"},
                   error |-> None,
                   segments |-> segments, queries |-> 1]

\* the route: 404 if 'error' in info, else 200
get_playback_info(camera_id, start_time, end_time) ==
    /\ LET info == playback_info(recordings, camera_id, start_time, end_time)
       IN  pb_call' = [type |-> "playback_info", camera_id |-> camera_id,
                       start_time |-> start_time, end_time |-> end_time,
                       info |-> info,
                       status |-> IF "error" \in info.keys THEN 404
                                                             ELSE 200]
    /\ UNCHANGED << index_vars, poll_vars, tracker_vars, camera_vars,
                    sweep_vars, emergency_vars, recovery_vars,
                    service_vars >>

\* recordings of the last hours are indexed and nothing is being written
PlaybackInit ==
    /\ QuietInit
    /\ recordings \in PlaybackTables
    /\ disk = { r.segment_path : r \in recordings }
    /\ EmergencyInit
    /\ RecoveryManagerInit
    /\ pb_call = NoOp
    /\ ServiceInit

PlaybackNext ==
    \E c \in Cameras, t0 \in PlaybackTimes, t1 \in PlaybackTimes :
        get_playback_info(c, t0, t1)

\* clients asking for playback information
SpecPlayback == PlaybackInit /\ [][PlaybackNext]_vars

\* C29: a playback_info call whose range has t0 < t1 and t1 - t0 <= 24 h
\* passes the validator, wherever the range lies relative to now; for every
\* other range the call returns the validation error and makes no segment
\* query.
C29_ValidatorExact ==
    pb_call.type = "playback_info" =>
        LET legal == /\ pb_call.start_time < pb_call.end_time
                     /\ pb_call.end_time - pb_call.start_time <= 24 * HourMs
        IN  /\ legal => pb_call.info.error # "Invalid time range"
            /\ legal => pb_call.info.queries = 1
            /\ ~legal => /\ pb_call.info.error = "Invalid time range"
                         /\ "error" \in pb_call.info.keys
                         /\ pb_call.info.queries = 0
                         /\ pb_call.status # 200

\* C29 witness: a range of exactly 24 hours that lies after now was accepted
C29_Witness ==
    /\ pb_call.type = "playback_info"
    /\ pb_call.start_time > clock
    /\ pb_call.end_time - pb_call.start_time = 24 * HourMs
    /\ pb_call.info.error # "Invalid time range"
    /\ pb_call.info.queries = 1

\* C30: a playback_info call with a valid range in which the camera has no
\* segments returns an empty segment list, no error and a success status.
C30_EmptyIsSuccess ==
    ( /\ pb_call.type = "playback_info"
      /\ validate_time_range(pb_call.start_time, pb_call.end_time)
      /\ get_segments(recordings, pb_call.camera_id, pb_call.start_time,
                      pb_call.end_time) = << >> )
    => /\ pb_call.info.segments = << >>
       /\ "segments" \in pb_call.info.keys
       /\ "error" \notin pb_call.info.keys
       /\ pb_call.status = 200

(***************************************************************************)
(* Playlist synthesis (generate_hls_playlist) and the playback resolver    *)
(* (get_segment_file) over a small file system.                            *)
(***************************************************************************)
\* names of directories and files
N_v == << "v" >>
N_r == << "r" >>
N_r2 == << "r", "2" >>
N_k == << "k" >>
N_d == << "d" >>
N_f1 == << "f", "1" >>
N_f2 == << "f", "2" >>
N_f3 == << "f", "3" >>

\* the camera id as the text used in paths and URLs
CameraName(c) == IF c = "cam1" THEN << "c", "1" >> ELSE << "c", "2" >>

\* the working directory of the process, /v
Cwd == << N_v >>

\* the storage root as configured: /v/r, or r relative to the working
\* directory
StorageRoots ==
    { PathOf(<< Slash >> \o N_v \o << Slash >> \o N_r),
      DefaultStoragePath }

\* the files of the machine, each by its location from the root directory:
\* three segment files under the storage root /v/r, a file in the sibling
\* directory /v/r2 and a file /v/k
SegmentLocations ==
    { << N_v, N_r, CameraName("cam1"), N_d, N_f1 >>,
      << N_v, N_r, CameraName("cam1"), N_d, N_f2 >>,
      << N_v, N_r, CameraName("cam2"), N_d, N_f3 >> }

Files ==
    SegmentLocations \cup
    { << N_v, N_r2, CameraName("cam1"), N_d, N_f1 >>, << N_v, N_k >> }

Dirs(files) ==
    UNION { { SubSeq(f, 1, n) : n \in 0..(Len(f) - 1) } : f \in files }

\* the operating system's walk along the components of a path: '..' steps
\* to the parent, every step starts in an existing directory; << location >>
\* or << >> if there is no such file or directory
RECURSIVE Walk(_, _, _)
Walk(files, cur, parts) ==
    IF parts = << >>
    THEN IF cur \in files \cup Dirs(files) THEN << cur >> ELSE << >>
    ELSE IF cur \notin Dirs(files) THEN << >>
    ELSE IF Head(parts) = DotDot
         THEN Walk(files,
                   IF cur = << >> THEN cur ELSE SubSeq(cur, 1, Len(cur) - 1),
                   Tail(parts))
         ELSE Walk(files, Append(cur, Head(parts)), Tail(parts))

Locate(files, path) ==
    Walk(files, IF path.abs THEN << >> ELSE Cwd, path.parts)

\* datetime.fromisoformat of a stored start_time, in milliseconds
fromisoformat(text) ==
    text[1] * 1000 + (IF Len(text) = 2 THEN text[2] \div 1000 ELSE 0)

\* the path the Segment Writer stores for a file of a camera:
\* str(storage_path / camera_id / today / segment_filename)
StoredPath(root, loc) ==
    PathStr([abs   |-> root.abs,
             parts |-> root.parts \o SubSeq(loc, 3, Len(loc))])

\* generate_hls_playlist, "Convert absolute path to relative URL": what
\* follows <base>/api/playback/segment/<camera_id>/ in the segment's URL
segment_url(root, camera_id, segment_path) ==
    IF startswith(segment_path, << Slash >>)
    THEN LET rel == relative_to(PathOf(segment_path), root)
         IN  IF rel = << >>
             THEN LET parts == PathOf(segment_path).parts
                  IN  parts[Len(parts)]
             ELSE LET rel_path_parts == rel[1].parts
                  IN  IF /\ Len(rel_path_parts) > 1
                         /\ rel_path_parts[1] = camera_id
                      THEN PathStr([abs |-> FALSE,
                                    parts |-> Tail(rel_path_parts)])
                      ELSE PathStr(rel[1])
    ELSE segment_path

\* mutant: every #EXTINF is the segment's own duration_ms
playlist_entries_nominal(root, camera_id, segments) ==
    [i \in 1..Len(segments) |->
       [extinf |-> segments[i].duration_ms,
        url    |-> segment_url(root, camera_id, segments[i].segment_path)]]

\* generate_hls_playlist: the #EXTINF value (in thousandths of a second, as
\* the format .3f prints it) and the URL tail of every segment
playlist_entries(root, camera_id, segments) ==
    [i \in 1..Len(segments) |->
       [extinf |-> IF i < Len(segments)
                   THEN fromisoformat(segments[i + 1].start_time)
                        - fromisoformat(segments[i].start_time)
                   ELSE segments[i].duration_ms,
        url    |-> segment_url(root, camera_id, segments[i].segment_path)]]

\* #EXT-X-TARGETDURATION:4
target_duration == 4

\* PlaybackManager.get_segment_file: << the location of the file whose
\* bytes are returned >>, or << >> for None
get_segment_file(files, root, camera_id, segment_path) ==
    LET full_path == JoinPath(JoinPath(root, camera_id), segment_path)
    IN  IF ~startswith(PathStr(full_path), PathStr(root)) THEN << >>
        ELSE LET loc == Locate(files, full_path)
             IN  IF loc = << >> THEN << >>
                 ELSE IF loc[1] \in files THEN loc ELSE << >>

playlist_frame == << index_vars, last_segment_urls, disk, clock, polls,
                     offered, failed_urls, polled, repeated, tracker_vars,
                     camera_vars, sweep_vars, emergency_vars, recovery_vars,
                     service_vars >>

\* route GET /api/playback/<camera_id>/playlist.m3u8
get_hls_playlist(c, start_time, end_time) ==
    /\ LET segments == get_segments_for_playback(recordings, c, start_time,
                                                 end_time)
       IN  pb_call' =
             IF segments = << >>
             THEN [type |-> "playlist", camera_id |-> c,
                   segments |-> << >>, entries |-> << >>, status |-> 404]
             ELSE [type |-> "playlist", camera_id |-> c,
                   segments |-> segments,
                   entries |-> playlist_entries(storage_path, CameraName(c),
                                                segments),
                   status |-> 200]
    /\ UNCHANGED playlist_frame

\* route GET /api/playback/segment/<camera_id>/<path:segment_path>
get_segment(camera_id, segment_path) ==
    /\ pb_call' = [type |-> "segment", camera_id |-> camera_id,
                   segment_path |-> segment_path,
                   content |-> get_segment_file(disk, storage_path,
                                                camera_id, segment_path)]
    /\ UNCHANGED playlist_frame

PlaylistT0 == Now0 - 2 * HourMs

\* start instants and durations of recorded segments
PlaylistStarts == { PlaylistT0, PlaylistT0 + 2500, PlaylistT0 + HourMs }
PlaylistDurations == { 2000, 3000 }

\* the tables playlist synthesis may find under a storage root: any of the
\* segment files indexed by the Segment Writer
PlaylistTables(root) ==
    { tbl \in
        { { Row(IF loc[3] = CameraName("cam1") THEN "cam1" ELSE "cam2",
                StoredPath(root, loc), g[loc][1], g[loc][2], g[loc][1])
              : loc \in DOMAIN g }
            : g \in UNION { [S -> PlaylistStarts \X PlaylistDurations]
                              : S \in SUBSET SegmentLocations } }
        : Unique(tbl) }

\* the texts a client may put after /segment/<camera_id>/
RequestPaths ==
    { N_d \o << Slash >> \o N_f1,
      DotDot \o << Slash >> \o CameraName("cam2") \o << Slash >> \o N_d
          \o << Slash >> \o N_f3,
      DotDot \o << Slash >> \o DotDot \o << Slash >> \o N_k,
      DotDot \o << Slash >> \o DotDot \o << Slash >> \o N_r2 \o << Slash >>
          \o CameraName("cam1") \o << Slash >> \o N_d \o << Slash >> \o N_f1,
      << Slash >> \o N_v \o << Slash >> \o N_k,
      << Slash >> \o N_v \o << Slash >> \o N_r2 \o << Slash >>
          \o CameraName("cam1") \o << Slash >> \o N_d \o << Slash >> \o N_f1 }

PlaylistInit ==
    /\ QuietInit
    /\ storage_path \in StorageRoots
    /\ engine_duration_ms = segment_duration_ms
    /\ timeline_index = {}
    /\ indexed_files = {}
    /\ seg_task = [c \in Cameras |-> [pc |-> "idle", path |-> None]]
    /\ seen = {}
    /\ tl_call = NoOp
    /\ TasksInit
    /\ recordings \in PlaylistTables(storage_path)
    /\ disk = Files
    /\ EmergencyInit
    /\ RecoveryManagerInit
    /\ pb_call = NoOp

PlaylistNext ==
    \/ \E c \in Cameras, t1 \in { PlaylistT0 + 2500, Now0 } :
          get_hls_playlist(c, PlaylistT0, t1)
    \/ \E c \in Cameras, text \in RequestPaths :
          get_segment(CameraName(c), text)

\* clients fetching playlists and segment files
SpecPlaylist == PlaylistInit /\ [][PlaylistNext]_vars

\* C31: a playlist synthesized for n segments in start order has n #EXTINF
\* entries in that order; each but the last is the difference of the next
\* segment's and its own indexed start, the last is its indexed duration_ms
\* (so for n = 1 the single entry is duration_ms).
C31_ExtinfFromIndex ==
    (pb_call.type = "playlist" /\ pb_call.status = 200) =>
        LET rows == get_segments(recordings, pb_call.camera_id, PlaylistT0,
                                 NoTime)
            n == Len(pb_call.segments)
        IN  /\ n = Len(pb_call.entries)
            /\ \A i \in 1..n :
                 /\ pb_call.segments[i].segment_path = rows[i].segment_path
                 /\ i < n => pb_call.entries[i].extinf =
                       rows[i + 1].start_time_ms - rows[i].start_time_ms
                 /\ i = n => pb_call.entries[i].extinf = rows[i].duration_ms

\* C31 witness: segment 0 gets EXTINF 2.500 and segment 1, the last, 3.000
C31_Witness ==
    /\ pb_call.type = "playlist"
    /\ Len(pb_call.entries) = 2
    /\ pb_call.entries[1].extinf = 2500
    /\ pb_call.entries[2].extinf = 3000

\* C31 witness for n = 1: the single entry is the segment's duration_ms
C31_WitnessSingle ==
    /\ pb_call.type = "playlist"
    /\ Len(pb_call.entries) = 1
    /\ pb_call.entries[1].extinf = 2000

\* C39: every #EXTINF of a synthesized playlist is at most the playlist's
\* #EXT-X-TARGETDURATION of 4 seconds, also when consecutive segments start
\* more than 4 s apart.
C39_ExtinfWithinTarget ==
    pb_call.type = "playlist" =>
        \A i \in DOMAIN pb_call.entries :
            pb_call.entries[i].extinf <= target_duration * 1000

\* C40: for every segment of a synthesized playlist, the URL tail is the
\* segment's path relative to the camera's directory, and get_segment_file
\* called with it returns the segment's own file, for an absolute and for a
\* relative storage root.
C40_UrlRoundTrip ==
    (pb_call.type = "playlist" /\ pb_call.status = 200) =>
        \A i \in DOMAIN pb_call.entries :
            LET own == Locate(disk, PathOf(pb_call.segments[i].segment_path))
                camera_dir == Cwd \o << N_r, CameraName(pb_call.camera_id) >>
            IN  /\ own # << >>
                /\ PathOf(pb_call.entries[i].url) =
                     [abs |-> FALSE,
                      parts |-> SubSeq(own[1], Len(camera_dir) + 1,
                                       Len(own[1]))]
                /\ get_segment_file(disk, storage_path,
                                    CameraName(pb_call.camera_id),
                                    pb_call.entries[i].url) = own

\* C32: get_segment_file never returns the bytes of a file that lies
\* outside the storage root, whatever camera_id and relative path it is
\* given.
C32_NoEscape ==
    (pb_call.type = "segment" /\ pb_call.content # << >>) =>
        LET root == Locate(disk, storage_path)[1]
        IN  /\ Len(root) <= Len(pb_call.content[1])
            /\ SubSeq(pb_call.content[1], 1, Len(root)) = root

(***************************************************************************)
(* Ingest: the Segment Writer's _download_and_process_segment, the         *)
(* MediaMTX scanner's _index_recording_file, the index writer and the      *)
(* TimelineManager, all on the same storage directory.                     *)
(***************************************************************************)
\* the instant in the name of a segment file: p1 and p2 of cam1 lie in the
\* same hour, p3 of cam2 in the next
SegTime(q) ==
    IF q = "p1" THEN Now0 + 1000
    ELSE IF q = "p2" THEN Now0 + 4000
    ELSE Now0 + HourMs

\* len(playable_mp4_data), and st_size of a file whose write is under way
FullSize == 2048
PartSize == 512

\* start_time.date() and start_time.hour
DateOf(ms) == ms \div DayMs
HourOf(ms) == (ms % DayMs) \div HourMs

\* segment_duration_ms values the configuration may hold
ConfiguredDurations == { 1000, 3000, 5000 }

\* SegmentProcessor.__init__: its own copy of the duration is clamped
ClampDuration(ms) == Max(2000, Min(ms, 4000))

\* a row of recordings with its file_size column
SizedRow(camera_id, segment_path, start_time_ms, duration_ms, file_size) ==
    Row(camera_id, segment_path, start_time_ms, duration_ms, start_time_ms)
        @@ [file_size |-> file_size]

BucketOf(tl, camera_id, date, hour) ==
    { b \in tl : b.camera_id = camera_id /\ b.date = date /\ b.hour = hour }

\* TimelineManager.update_timeline
update_timeline(tl, camera_id, segment) ==
    LET date_key == DateOf(segment.start_time)
        hour_key == HourOf(segment.start_time)
        row == BucketOf(tl, camera_id, date_key, hour_key)
    IN  IF row # {}
        THEN { IF b \in row
               THEN [b EXCEPT
                       !.segment_count = @ + 1,
                       !.total_duration_ms = @ + segment.duration_ms,
                       !.total_size_bytes = @ + segment.file_size,
                       !.last_segment_time = segment.start_time]
               ELSE b : b \in tl }
        ELSE tl \cup
             { [camera_id |-> camera_id, date |-> date_key,
                hour |-> hour_key, segment_count |-> 1,
                total_duration_ms |-> segment.duration_ms,
                total_size_bytes |-> segment.file_size,
                first_segment_time |-> segment.start_time,
                last_segment_time |-> segment.start_time] }

RECURSIVE SumOver(_, _)
SumOver(S, field) ==
    IF S = {} THEN 0
    ELSE LET x == CHOOSE y \in S : TRUE
         IN  x[field] + SumOver(S \ {x}, field)

\* build_timeline, "Group segments by date and hour": the bucket of the
\* segments of one hour, which the query returned in start order
GroupBucket(camera_id, date, hour, segments) ==
    [camera_id |-> camera_id, date |-> date, hour |-> hour,
     segment_count |-> Cardinality(segments),
     total_duration_ms |-> SumOver(segments, "duration_ms"),
     total_size_bytes |-> SumOver(segments, "file_size"),
     first_segment_time |->
        (CHOOSE r \in segments :
            \A q \in segments : TextLeq(r.start_time, q.start_time)
        ).start_time_ms,
     last_segment_time |->
        (CHOOSE r \in segments :
            \A q \in segments : TextLeq(q.start_time, r.start_time)
        ).start_time_ms]

\* the valid segments of the camera whose date is in the range, and the
\* (date, hour) keys they fall in
BuildSegments(recs, camera_id, start_date, end_date) ==
    { r \in recs : /\ r.camera_id = camera_id
                   /\ DateOf(r.start_time_ms) >= start_date
                   /\ DateOf(r.start_time_ms) <= end_date
                   /\ r.is_valid }

BuildKeys(segments) ==
    { << DateOf(r.start_time_ms), HourOf(r.start_time_ms) >> : r \in segments }

\* mutant: the buckets found are added to the rows of the table
build_timeline_accumulate(tl, recs, camera_id, start_date, end_date) ==
    LET segments == BuildSegments(recs, camera_id, start_date, end_date)
        fresh == { GroupBucket(camera_id, k[1], k[2],
                       { r \in segments :
                           << DateOf(r.start_time_ms),
                              HourOf(r.start_time_ms) >> = k })
                     : k \in BuildKeys(segments) }
    IN  { b \in tl : b.camera_id # camera_id
                     \/ << b.date, b.hour >> \notin BuildKeys(segments) }
        \cup
        { IF BucketOf(tl, camera_id, f.date, f.hour) = {} THEN f
          ELSE LET old == CHOOSE b \in BucketOf(tl, camera_id, f.date, f.hour)
                              : TRUE
               IN  [f EXCEPT !.segment_count = @ + old.segment_count,
                             !.total_duration_ms = @ + old.total_duration_ms,
                             !.total_size_bytes = @ + old.total_size_bytes]
            : f \in fresh }

\* TimelineManager.build_timeline: INSERT OR REPLACE of every bucket found
build_timeline(tl, recs, camera_id, start_date, end_date) ==
    LET segments == BuildSegments(recs, camera_id, start_date, end_date)
        fresh == { GroupBucket(camera_id, k[1], k[2],
                       { r \in segments :
                           << DateOf(r.start_time_ms),
                              HourOf(r.start_time_ms) >> = k })
                     : k \in BuildKeys(segments) }
    IN  { b \in tl : b.camera_id # camera_id
                     \/ << b.date, b.hour >> \notin BuildKeys(segments) }
        \cup fresh

ingest_frame == << recordings, writer_pc, writer_op, lock_owner, db_owner,
                  tx, thread_pc, thread_op, ops, applied, pair_done,
                  last_call, last_segment_urls, clock, polls, offered,
                  failed_urls, polled, repeated, tracker_vars, camera_vars,
                  sweep_vars, emergency_vars, rec_pc, runs, baseline,
                  pb_call, storage_path, engine_duration_ms, tasks_vars >>

\* with open(segment_path, 'wb') as f: the file exists under its final
\* name from here on
OpenSegment(q) ==
    /\ seg_task[CameraOf(q)].pc = "idle"
    /\ q \notin disk
    /\ disk' = disk \cup {q}
    /\ seg_task' = [seg_task EXCEPT ![CameraOf(q)] =
                      [pc |-> "open", path |-> q]]
    /\ UNCHANGED << write_queue, enqueued, intact, timeline_index,
                    indexed_files, seen, tl_call, ingest_frame >>

\* f.write(playable_mp4_data) and the close of the file
WriteSegment(c) ==
    /\ seg_task[c].pc = "open"
    /\ intact' = intact \cup {seg_task[c].path}
    /\ seg_task' = [seg_task EXCEPT ![c].pc = "written"]
    /\ UNCHANGED << write_queue, enqueued, disk, timeline_index,
                    indexed_files, seen, tl_call, ingest_frame >>

\* self.index_db.add_recording(..., duration_ms=self.segment_duration_ms)
IndexSegment(c) ==
    /\ seg_task[c].pc = "written"
    /\ LET q == seg_task[c].path
           row == SizedRow(c, q, SegTime(q), engine_duration_ms, FullSize)
       IN  /\ write_queue' = QueuePut(write_queue,
                                [op_type |-> "insert_recording",
                                 row |-> row, seq |-> Len(enqueued) + 1])
           /\ enqueued' = Append(enqueued, row)
    /\ seg_task' = [seg_task EXCEPT ![c].pc = "queued"]
    /\ UNCHANGED << disk, intact, timeline_index, indexed_files, seen,
                    tl_call, ingest_frame >>

\* self.timeline_manager.update_timeline(camera_id, segment_data)
UpdateTimeline(c) ==
    /\ seg_task[c].pc = "queued"
    /\ timeline_index' =
          update_timeline(timeline_index, c,
                          [start_time |-> SegTime(seg_task[c].path),
                           duration_ms |-> engine_duration_ms,
                           file_size |-> FullSize])
    /\ seg_task' = [seg_task EXCEPT ![c] = [pc |-> "idle", path |-> None]]
    /\ tl_call' = NoOp
    /\ UNCHANGED << write_queue, enqueued, disk, intact, indexed_files,
                    seen, ingest_frame >>

\* MediaMTX, the external recorder, puts a finished file of its own into
\* the storage directory
MediaMTXRecords(q) ==
    /\ q \notin disk
    /\ \A c \in Cameras : seg_task[c].path # q
    /\ disk' = disk \cup {q}
    /\ intact' = intact \cup {q}
    /\ UNCHANGED << write_queue, enqueued, timeline_index, indexed_files,
                    seen, tl_call, seg_task, ingest_frame >>

\* _scan_camera_recordings with _index_recording_file for one file that
\* date_dir.glob("*.mp4") lists and indexed_files does not hold
_index_recording_file(q) ==
    /\ q \in disk
    /\ q \notin indexed_files
    /\ LET row == SizedRow(CameraOf(q), q, SegTime(q), 3000,
                           IF q \in intact THEN FullSize ELSE PartSize)
       IN  /\ write_queue' = QueuePut(write_queue,
                                [op_type |-> "insert_recording",
                                 row |-> row, seq |-> Len(enqueued) + 1])
           /\ enqueued' = Append(enqueued, row)
    /\ indexed_files' = indexed_files \cup {q}
    /\ seen' = seen \cup
          { [path |-> q,
             complete |-> q \in intact,
             stage |-> IF seg_task[CameraOf(q)].path = q
                       THEN seg_task[CameraOf(q)].pc ELSE "idle"] }
    /\ UNCHANGED << disk, intact, timeline_index, seg_task, tl_call,
                    ingest_frame >>

\* the day ranges build_timeline is called with
BuildRanges == { << 19, 19 >>, << 20, 20 >> }

\* a call of build_timeline(camera_id, start_date, end_date)
BuildTimeline(c, range) ==
    /\ timeline_index' =
          build_timeline(timeline_index, recordings, c, range[1], range[2])
    /\ tl_call' =
          IF /\ tl_call.type = "build"
             /\ tl_call.args = << c, range >>
             /\ tl_call.recs = recordings
          THEN [tl_call EXCEPT !.second = TRUE]
          ELSE [type |-> "build", args |-> << c, range >>,
                recs |-> recordings, before |-> timeline_index,
                after_first |-> timeline_index', second |-> FALSE]
    /\ UNCHANGED << write_queue, enqueued, disk, intact, indexed_files,
                    seen, seg_task, ingest_frame >>

IngestInit ==
    /\ QuietInit
    /\ recordings = {}
    /\ disk = {}
    /\ EmergencyInit
    /\ RecoveryManagerInit
    /\ pb_call = NoOp
    /\ storage_path = DefaultStoragePath
    /\ engine_duration_ms \in ConfiguredDurations
    /\ timeline_index = {}
    /\ indexed_files = {}
    /\ seg_task = [c \in Cameras |-> [pc |-> "idle", path |-> None]]
    /\ seen = {}
    /\ tl_call = NoOp
    /\ TasksInit

IngestNext ==
    \/ \E q \in Paths : OpenSegment(q)
    \/ \E c \in Cameras : WriteSegment(c)
    \/ \E c \in Cameras : IndexSegment(c)
    \/ \E c \in Cameras : UpdateTimeline(c)
    \/ MediaMTXRecords("p3")
    \/ \E q \in Paths : _index_recording_file(q)
    \/ WriterGet
    \/ WriterExecute
    \/ WriterCommit

\* the Segment Writers, the scanner and the index writer
SpecIngest == IngestInit /\ [][IngestNext]_vars

\* the rows the index may hold when the timeline is rebuilt, valid or not
TimelineTables ==
    { { [SizedRow(CameraOf(q), q, SegTime(q), 3000, FullSize)
           EXCEPT !.is_valid = g[q]] : q \in DOMAIN g }
        : g \in UNION { [S -> BOOLEAN] : S \in SUBSET Paths } }

RECURSIVE UpdatedFor(_)
\* the timeline after update_timeline was called for the files
UpdatedFor(S) ==
    IF S = {} THEN {}
    ELSE LET q == CHOOSE x \in S : \A y \in S : SegTime(y) <= SegTime(x)
         IN  update_timeline(UpdatedFor(S \ {q}), CameraOf(q),
                             [start_time |-> SegTime(q),
                              duration_ms |-> 3000,
                              file_size |-> FullSize])

\* the application starts on an index written by earlier runs, with the
\* timeline that the Segment Writer's updates left
TimelineInit ==
    /\ QuietInit
    /\ recordings \in TimelineTables
    /\ disk = { r.segment_path : r \in recordings }
    /\ EmergencyInit
    /\ RecoveryManagerInit
    /\ pb_call = NoOp
    /\ storage_path = DefaultStoragePath
    /\ engine_duration_ms = segment_duration_ms
    /\ timeline_index \in { UpdatedFor(S) : S \in SUBSET Paths }
    /\ indexed_files = {}
    /\ seg_task = [c \in Cameras |-> [pc |-> "idle", path |-> None]]
    /\ seen = {}
    /\ tl_call = NoOp
    /\ TasksInit

TimelineNext ==
    \E c \in Cameras, range \in BuildRanges : BuildTimeline(c, range)

\* timeline rebuilds over an unchanged segment table
SpecTimeline == TimelineInit /\ [][TimelineNext]_vars

\* the index writer has applied all that was queued and no Segment Writer
\* is inside _download_and_process_segment
IngestQuiet ==
    /\ write_queue = << >>
    /\ writer_pc = "get"
    /\ \A c \in Cameras : seg_task[c].pc = "idle"

\* C33: once the queued inserts are applied, every (camera, date, hour)
\* bucket's segment_count, total_duration_ms and total_size_bytes equal the
\* count and the sums over the index records of that camera and hour.
C33_BucketsMatchIndex ==
    IngestQuiet =>
        \A c \in Cameras, q \in Paths :
            LET date == DateOf(SegTime(q))
                hour == HourOf(SegTime(q))
                rows == { r \in recordings :
                            /\ r.camera_id = c
                            /\ DateOf(r.start_time_ms) = date
                            /\ HourOf(r.start_time_ms) = hour }
                bucket == BucketOf(timeline_index, c, date, hour)
            IN  IF rows = {} THEN bucket = {}
                ELSE /\ Cardinality(bucket) = 1
                     /\ \A b \in bucket :
                          /\ b.segment_count = Cardinality(rows)
                          /\ b.total_duration_ms = SumOver(rows, "duration_ms")
                          /\ b.total_size_bytes = SumOver(rows, "file_size")

\* C36: the scanner indexes no file that a Segment Writer has opened under
\* its final path and not yet both finished and enqueued; in particular it
\* sees no partially written file.
C36_NoEarlyRead ==
    \A e \in seen : e.complete /\ e.stage \notin {"open", "written"}

\* C37: every record the Segment Writer enqueues has duration_ms equal to
\* the configured segment duration clamped to [2000, 4000] ms.
C37_DurationClamped ==
    [][\A c \in Cameras :
          (seg_task[c].pc = "written" /\ seg_task'[c].pc = "queued")
          => enqueued'[Len(enqueued')].duration_ms
                = ClampDuration(engine_duration_ms)]_vars

\* C34: a second build_timeline run with the same arguments over an
\* unchanged segment table leaves every bucket as the first run left it.
C34_BuildIdempotent ==
    (tl_call.type = "build" /\ tl_call.second) =>
        timeline_index = tl_call.after_first

\* C34 witness: the first run changed a bucket and the second run was made
C34_Witness ==
    /\ tl_call.type = "build"
    /\ tl_call.second
    /\ tl_call.before # tl_call.after_first
    /\ \E b \in timeline_index : b.segment_count = 2

(***************************************************************************)
(* Life cycle: RecordingEngine.start and stop, the _record_camera threads, *)
(* the index writer thread and the application's atexit handler.           *)
(***************************************************************************)
\* start() calls that make threads
MaxStarts == 2

lifecycle_frame == << recordings, writer_pc, writer_op, lock_owner, db_owner,
                     tx, thread_pc, thread_op, ops, applied, pair_done,
                     last_call, last_segment_urls, clock, polls, offered,
                     failed_urls, polled, repeated, tracker_vars, cam_pc,
                     init_segments, init_segment_downloaded, steps,
                     last_error, last_report, last_sleep, last_write,
                     recovering, wrote_after_recovery, sweep_vars,
                     emergency_vars, recovery_vars, pb_call, storage_path,
                     engine_duration_ms, timeline_index, indexed_files,
                     seg_task, seen, tl_call >>

\* RecordingEngine.start(): returns at once while is_running, else sets
\* is_running and starts one thread per camera
start ==
    /\ proc.state = "running"
    /\ IF is_running
       THEN UNCHANGED << is_running, recording_threads, starts >>
       ELSE /\ starts < MaxStarts
            /\ is_running' = TRUE
            /\ recording_threads' = recording_threads \cup
                  { [camera |-> c, run |-> starts + 1, pc |-> "loop"]
                      : c \in Cameras }
            /\ starts' = starts + 1
    /\ UNCHANGED << write_queue, enqueued, disk, proc, lifecycle_frame >>

\* RecordingEngine.stop(): is_running = False; thread.join(timeout=5)
\* returns after five seconds whether the thread has ended or not.  A
\* thread at the head of its loop sees the flag and ends; a thread inside a
\* round of _process_hls_stream (requests.get with timeouts of 5 and 10 s,
\* several downloads) ends in time or is still alive when stop() returns
stop ==
    /\ proc.state = "running"
    /\ is_running' = FALSE
    /\ \E late \in SUBSET { th \in recording_threads : th.pc = "stream" } :
          recording_threads' = late
    /\ UNCHANGED << write_queue, enqueued, disk, starts, proc,
                    lifecycle_frame >>

\* "while self.is_running:" of _record_camera
TaskCheck(th) ==
    /\ proc.state # "exited"
    /\ th \in recording_threads
    /\ th.pc = "loop"
    /\ recording_threads' =
          IF is_running
          THEN (recording_threads \ {th}) \cup {[th EXCEPT !.pc = "stream"]}
          ELSE recording_threads \ {th}
    /\ UNCHANGED << write_queue, enqueued, disk, is_running, starts, proc,
                    lifecycle_frame >>

\* one round of "while self.is_running:" of _process_hls_stream, entered
\* after the blocking download or sleep of the round before: a new segment
\* is written and indexed, or none is new; the function returns when
\* is_running is False
TaskRound(th, files) ==
    /\ proc.state # "exited"
    /\ th \in recording_threads
    /\ th.pc = "stream"
    /\ IF is_running
       THEN /\ \A q \in files : CameraOf(q) = th.camera /\ q \notin disk
            /\ Cardinality(files) <= 1
            /\ disk' = disk \cup files
            /\ LET rows == [i \in 1..Cardinality(files) |->
                              Row(th.camera, CHOOSE q \in files : TRUE,
                                  SegTime(CHOOSE q \in files : TRUE),
                                  engine_duration_ms,
                                  SegTime(CHOOSE q \in files : TRUE))]
               IN  /\ write_queue' = write_queue \o
                        [i \in DOMAIN rows |->
                           [op_type |-> "insert_recording", row |-> rows[i],
                            seq |-> Len(enqueued) + i]]
                   /\ enqueued' = enqueued \o rows
            /\ UNCHANGED recording_threads
       ELSE /\ files = {}
            /\ recording_threads' =
                  (recording_threads \ {th}) \cup {[th EXCEPT !.pc = "loop"]}
            /\ UNCHANGED << write_queue, enqueued, disk >>
    /\ UNCHANGED << is_running, starts, proc, lifecycle_frame >>

\* the index writer thread while the process lives
WriterStep ==
    /\ proc.state # "exited"
    /\ (WriterGet \/ WriterExecute \/ WriterCommit)

\* the atexit handler shutdown(): recording_engine.stop(), then
\* recording_index.stop(), a method RecordingIndex does not have; nothing
\* clears RecordingIndex.is_running or puts the None sentinel on the queue.
\* The number of operations enqueued so far is kept.
shutdown ==
    /\ proc.state = "running"
    /\ proc' = [state |-> "shutdown", enqueued |-> Len(enqueued)]
    /\ is_running' = FALSE
    /\ \E late \in SUBSET { th \in recording_threads : th.pc = "stream" } :
          recording_threads' = late
    /\ UNCHANGED << write_queue, enqueued, disk, starts, lifecycle_frame >>

\* the interpreter exits: the daemon threads, the index writer among them,
\* end where they are
ProcessExit ==
    /\ proc.state = "shutdown"
    /\ proc' = [proc EXCEPT !.state = "exited"]
    /\ recording_threads' = {}
    /\ UNCHANGED << write_queue, enqueued, disk, is_running, starts,
                    lifecycle_frame >>

LifecycleInit ==
    /\ StoreInit
    /\ WriterTaskInit
    /\ TrackerInit /\ SweepInit /\ EmergencyInit /\ RecoveryManagerInit
    /\ is_running = FALSE
    /\ cam_pc = "start"
    /\ init_segments = {}
    /\ init_segment_downloaded = FALSE
    /\ steps = 0
    /\ last_error = NoOp
    /\ last_report = None
    /\ last_sleep = 0
    /\ last_write = None
    /\ recovering = FALSE
    /\ wrote_after_recovery = FALSE
    /\ pb_call = NoOp
    /\ ServiceInit

LifecycleNext ==
    \/ start
    \/ stop
    \/ \E c \in Cameras, run \in 1..MaxStarts :
          TaskCheck([camera |-> c, run |-> run, pc |-> "loop"])
    \/ \E c \in Cameras, run \in 1..MaxStarts, files \in SUBSET Paths :
          TaskRound([camera |-> c, run |-> run, pc |-> "stream"], files)
    \/ WriterStep
    \/ shutdown
    \/ ProcessExit

\* the engine started and stopped, its threads, the index writer and the
\* end of the process
SpecLifecycle == LifecycleInit /\ [][LifecycleNext]_vars

\* C35: when the process has ended after the shutdown signal, the index
\* writer has applied every operation that was enqueued before the signal.
C35_DrainedAtExit ==
    proc.state = "exited" =>
        \A n \in 1..proc.enqueued : \E i \in DOMAIN applied : applied[i] = n

\* C38: at no time are two _record_camera threads of one camera inside
\* _process_hls_stream, whatever the order of start() and stop() calls.
C38_OneTaskPerCamera ==
    \A a, b \in recording_threads :
        (a.camera = b.camera /\ a.pc = "stream" /\ b.pc = "stream") => a = b

====
